---- MODULE Spec2Model ----
(***************************************************************************)
(* A model of mopidy-rfid: its two hardware managers, its mappings store   *)
(* and its frontend's progress tracker and tag handler.                    *)
(*                                                                         *)
(*   RFIDManager (rfid_manager.py): the read-loop worker thread, and the   *)
(*   controlling thread that calls start() and stop().                     *)
(*   LEDManager (led_manager.py): the pixel buffer, the draw lock, the     *)
(*   standby comet workers, the flash workers and the threads that call    *)
(*   the manager's methods.                                                *)
(*                                                                         *)
(* Time is counted in tenths of a second.  The read loop only ever looks   *)
(* at time.time() - last_success, so the model keeps that difference       *)
(* (elapsed), saturated just above the 10 s timeout it is compared with.   *)
(***************************************************************************)
EXTENDS Integers, Sequences, FiniteSets, TLC

VARIABLES
    \* ---- RFIDManager ----
    stop_event,          \* self._stop_event.is_set()
    reader,              \* self._reader: "none" or "handle"
    has_noblock,         \* the handle offers read_id_no_block
    r_lock,              \* self._lock is held
    r_pc,                \* position of the read-loop worker; "dead" = no live worker
    r_ret,               \* who called _init_reader: "loop" or "recover"
    consecutive_errors,  \* local of _read_loop
    elapsed,             \* time.time() - last_success, saturated
    tid,                 \* the parsed tag id being delivered (-1 = None)
    gpio_avail,          \* the module-level GPIO is not None
    rst_owned,           \* the reset line is set up and not yet cleaned up
    ctl_pc,              \* position of the controlling thread
    script,              \* simulated reads still to be served first (<<>> = live hardware)
    sim_pos,             \* how many simulated reads have been served
    n_started,           \* workers created so far
    start_refused,       \* recorded: a start() found the worker alive and returned at line 100
    n_pulse,             \* reset pulses driven on the line (recorded, saturating)
    recoverAt,           \* sim_pos at each recorded recovery cycle (first MaxCount)
    cbLog,               \* the recorded tag ids handed to the callback (first MaxLog)
    cb_raised,           \* the callback has raised at least once
    delivered_after_raise, \* a tag was handed to the callback after it had raised
    reads_after_stop,    \* read attempts begun while the stop event was set
    cb_after_stop,       \* callback invocations begun while the stop event was set
    stop_returned,       \* a stop() call has returned
    late,                \* recorded: what the worker did after the last stop() had returned
    \* ---- LEDManager ----
    led_lock,            \* the thread holding self._lock, or Free
    pixels,              \* the strip's pixel buffer
    last_remain_count,   \* self._last_remain_count, -1 while the attribute is absent
    standby_running,     \* self._standby_running (absent reads as False)
    standby_stop,        \* the worker whose Event self._standby_stop is (0 = None)
    ev_set,              \* ev_set[w]: the Event created with worker w is set
    w_pc,                \* position of comet worker w; "dead" = no such thread
    w_idx,               \* idx of comet worker w
    w_frames,            \* frames drawn by comet worker w
    w_stopper,           \* the caller inside the stop_standby_comet that set w's event
    w_acked,             \* a stop_standby_comet that set w's event has returned
    f_pc,                \* position of flash worker f; "dead" = no such thread
    f_saved,             \* saved of flash worker f
    f_foreign,           \* another writer wrote between f's snapshot and its restore
    f_result,            \* how f's last flash ended: "", "restored" or "clobbered"
    c_pc,                \* position of caller thread c
    c_arg,               \* argument of the call caller c is in
    c_i,                 \* loop index i of the scan caller c is in
    n_calls,             \* LEDManager calls begun so far
    rp_shown,            \* the counts remaining_progress called show() for, in order
    ghost_write,         \* a comet worker wrote a frame after its stop had returned
    prev_start,          \* "starting"/"started": a start_standby_comet runs/ran alone, no call since
    second_created,      \* a start right after a start created a worker
    sd_state,            \* "running"/"returned": a shutdown() runs/has run alone, no call
                         \* since; "late": a worker wrote a frame after it returned
    \* ---- MappingsDB and the mapping helpers built on it ----
    db_rows,             \* the committed rows of table mappings
    db_lock,             \* the thread holding MappingsDB._lock, 0 = free
    db_tx,               \* db_tx[th]: the rows as th's open connection has staged them
    s_pc,                \* position of store thread th inside its operation
    s_op,                \* the operation th is in: [op, tag, uri, description]
    s_rowcount,          \* cur.rowcount of th's DELETE
    s_res,               \* th's last finished operation and what it returned
    expect,              \* per tag: the mapping the applied sets and deletes leave, in order
    last_mut,            \* per tag: the last applied write, "none", "set" or "delete"
    n_ops,               \* store operations called so far
    \* ---- the frontend's progress tracker and the playback engine ----
    fe_led,              \* self._led: "none" or "manager"
    hw_pc,               \* the hw-init thread: "pending" or "done"
    remaining_on,        \* LedConfig's toggle "remaining"
    progress_stop,       \* self._progress_stop is set
    eng_state,           \* core.playback.get_state()
    eng_pos,             \* core.playback.get_time_position()
    eng_len,             \* the current track's length, 0 while none is to be had
    t_pc,                \* position of the tracker thread inside its tick
    t_state,             \* local state of _run
    last_state,          \* local last_state of _run ("None" before the first change)
    t_pos,               \* local pos_ms of _run
    t_len,               \* local length_ms of _run
    t_from,              \* last_state as this tick found it
    t_seen,              \* the engine's position and length and the toggle when this
                         \* tick's state-change branch ran
    t_calls,             \* the ratios this tick passed to remaining_progress, in order
    sweep_running,       \* a paused sweep runs on the manager
    n_ticks,             \* ticks begun so far
    \* ---- the frontend's tag handler ----
    sounds_detected,     \* self._sounds.get("detected")
    h_pc,                \* position of the thread running _on_tag_detected
    h_tag,               \* tag_str
    h_uri,               \* mapped_uri
    h_state,             \* local state of _play_detect_then_execute
    cmd_log,             \* the calls this detection made on core, in order
    bc_pending,          \* the events whose _broadcast thread has not run yet
    events,              \* the events handed to http.broadcast_event, in order
    n_tags,              \* detections handled so far
    \* ---- an LEDManager built without a ring ----
    off_mgr,             \* its fields: _enabled, _strip, _standby_running, _standby_stop,
                         \* _last_remain_count, and the arguments it was built with
    off_log,             \* the calls made on it and what each did, in order
    \* ---- hardware writes that raise ----
    propagated,          \* the methods out of which such an exception reached the caller
    n_faults             \* hardware writes that have raised so far

rvars == <<stop_event, reader, has_noblock, r_lock, r_pc, r_ret, consecutive_errors,
           elapsed, tid, gpio_avail, rst_owned, ctl_pc, script, sim_pos, n_started,
           start_refused,
           n_pulse, recoverAt, cbLog, cb_raised,
           delivered_after_raise, reads_after_stop, cb_after_stop, stop_returned, late>>

lvars == <<led_lock, pixels, last_remain_count, standby_running, standby_stop, ev_set,
           w_pc, w_idx, w_frames, w_stopper, w_acked, f_pc, f_saved, f_foreign, f_result,
           c_pc, c_arg, c_i, n_calls, rp_shown, ghost_write, prev_start, second_created,
           sd_state>>

svars == <<db_rows, db_lock, db_tx, s_pc, s_op, s_rowcount, s_res, expect, last_mut, n_ops>>

tvars == <<fe_led, hw_pc, remaining_on, progress_stop, eng_state, eng_pos, eng_len, t_pc,
           t_state, last_state, t_pos, t_len, t_from, t_seen, t_calls, sweep_running,
           n_ticks>>

\* what an action of the reader manager or of the LED manager leaves alone
\* the tag handler's: the sound it plays on a detection, its position, the tag and
\* mapping in hand, the state it read, the commands it sent to the engine, the
\* broadcast threads it started and the events they published
gvars == <<sounds_detected, h_pc, h_tag, h_uri, h_state, cmd_log, bc_pending, events, n_tags>>

\* an LEDManager built without a ring, and the calls made on it
dvars == <<off_mgr, off_log>>

\* the hardware writes that raised, and the calls they came out of
xvars == <<propagated, n_faults>>

ovars == <<svars, tvars, gvars, dvars, xvars>>

vars == <<rvars, lvars, ovars>>

Min(a, b) == IF a < b THEN a ELSE b
Max(a, b) == IF a > b THEN a ELSE b

(***************************************************************************)
(* Bounds of the model.                                                    *)
(***************************************************************************)
MaxStarts == 2      \* read-loop workers created
MaxCount == 2       \* recovery cycles and reset pulses recorded
MaxLog == 2         \* callback invocations recorded in cbLog
MaxAfterStop == 2   \* saturation of reads_after_stop and cb_after_stop
LedCount == 3       \* led_count of the ring the manager is built with
MaxCalls == 4       \* LEDManager calls made by the caller threads
MaxComet == 2       \* comet worker threads alive at once
MaxFlash == 1       \* flash worker threads alive at once
MaxFrames == 2      \* frames one comet worker draws
MaxOps == 3         \* store operations called by the store threads
MaxTicks == 2       \* ticks the progress tracker begins
MaxPos == 1         \* positions the engine reports, and the length of its track
MaxTags == 1        \* detections the tag handler is called for
MaxOffCalls == 3    \* calls made on the manager built without a ring
MaxFaults == 1      \* hardware writes of the ring that raise
PollDs == 5         \* poll_interval the manager is built with, in tenths of a second
SlowDs == 60        \* tenths of a second a slow hardware read takes to come back


(***************************************************************************)
(* RFIDManager: constants of the read loop, in tenths of a second.         *)
(***************************************************************************)
ErrorThreshold == 3 \* consecutive_errors >= 3
TimeoutDs == 100    \* (time.time() - last_success) > 10
DebounceDs == 10    \* time.sleep(1.0) after a delivered tag
BackoffDs == 5      \* time.sleep(0.5) after a read error
NoReaderDs == 10    \* time.sleep(1.0) while the handle is absent
ResetDs == 2        \* the two time.sleep(0.1) of a reset pulse

\* time.time() - last_success after d more tenths, saturated above the timeout
Adv(e, d) == Min(e + d, TimeoutDs + 1)

(***************************************************************************)
(* What a hardware read can give: an exception, None, or a raw tag value   *)
(* (an int, a str as its characters, 0..9 the digits and 10 any other      *)
(* character, or bytes).                                                   *)
(***************************************************************************)
Err == [k |-> "err", v |-> <<>>]
NoTag == [k |-> "none", v |-> <<>>]
RawInt(n) == [k |-> "int", v |-> <<n>>]
RawStr(s) == [k |-> "str", v |-> s]
RawBytes(b) == [k |-> "bytes", v |-> b]

RECURSIVE DecimalDigits(_)
\* str(n) of a non-negative int, as its digits
DecimalDigits(n) == IF n < 10 THEN <<n>> ELSE Append(DecimalDigits(n \div 10), n % 10)

RECURSIVE PositionalValue(_, _)
\* the value of the digit sequence s in base b
PositionalValue(s, b) ==
    IF s = <<>> THEN 0
    ELSE PositionalValue(SubSeq(s, 1, Len(s) - 1), b) * b + s[Len(s)]

\* int(s) of a str: -1 when int() raises
IntOfStr(s) ==
    IF s # <<>> /\ \A i \in 1..Len(s) : s[i] < 10 THEN PositionalValue(s, 10) ELSE -1

\* lines 149-162: the tag id as an int, -1 when tid is None
ParseTag(raw) ==
    CASE raw.k = "int" -> IntOfStr(DecimalDigits(raw.v[1]))
      [] raw.k = "str" -> IntOfStr(raw.v)
      [] raw.k = "bytes" -> PositionalValue(raw.v, 256)
      [] OTHER -> -1

\* What live hardware may answer to one read.
ReadOutcomes == {Err, NoTag, RawInt(42), RawStr(<<7>>), RawStr(<<10>>), RawBytes(<<0, 42>>)}

\* How long a live hardware read may take.
Latencies == {0, SlowDs}

\* Simulated readers (mock side_effect lists); <<>> is live hardware.
Scripts ==
    { <<>>,
      <<Err, Err, Err, RawInt(42), NoTag>>,
      <<Err, RawInt(42), NoTag>>,
      <<Err, Err, RawInt(42), Err, NoTag>>,
      <<RawInt(42), RawInt(42), NoTag>>,
      <<NoTag, Err, NoTag, Err, NoTag, Err, NoTag>>,
      <<RawStr(<<10>>), NoTag>>,
      <<Err, Err, Err, Err, RawInt(42), NoTag>> }

\* The simulated readers that have no read_id_no_block: their values come from read().
BlockingScripts == { <<Err, Err, Err, Err, RawInt(42), NoTag>> }

\* The simulated readers come with recording mocks: the reset pulses, the recovery
\* cycles and the callback's calls are recorded while a simulated reader is in use.
Logging == script # <<>>

\* RFIDManager.__init__: the state after construction
InitReader ==
    /\ stop_event = FALSE
    /\ script \in Scripts
    /\ reader \in (IF script = <<>> THEN {"none", "handle"} ELSE {"handle"})
    /\ has_noblock \in (IF script = <<>> THEN BOOLEAN
                        ELSE IF script \in BlockingScripts THEN {FALSE} ELSE {TRUE})
    /\ r_lock = FALSE
    /\ r_pc = "dead"
    /\ r_ret = "loop"
    /\ consecutive_errors = 0
    /\ elapsed = 0
    /\ tid = -1
    /\ gpio_avail = TRUE
    /\ rst_owned = gpio_avail
    /\ ctl_pc = "idle"
    /\ sim_pos = 0
    /\ n_started = 0
    /\ start_refused = FALSE
    /\ n_pulse = 0
    /\ recoverAt = <<>>
    /\ cbLog = <<>>
    /\ cb_raised = FALSE
    /\ delivered_after_raise = FALSE
    /\ reads_after_stop = 0
    /\ cb_after_stop = 0
    /\ stop_returned = FALSE
    /\ late = {}

\* the last stop() has returned and no start() has been called since
StopHasReturned == stop_event /\ ctl_pc = "idle" /\ stop_returned

\* what the worker does once stop() has returned, recorded for the simulated readers
Late(what) == IF StopHasReturned /\ Logging THEN late \cup {what} ELSE late

ThreadNeverAlive == FALSE

\* threading.Thread.is_alive() of self._thread
ThreadAlive == r_pc # "dead"

\* a reset that drives the line whether or not it is still set up
PulseDrivenUnowned == gpio_avail

\* _hw_reset: drives the pulse when GPIO is there and the line is set up;
\* GPIO.output on a cleaned-up line raises, which _hw_reset catches
PulseDriven == gpio_avail /\ rst_owned
HwResetElapsed(e) == IF PulseDriven THEN Adv(e, ResetDs) ELSE e
HwResetPulses(n) == IF PulseDriven /\ Logging THEN Min(n + 1, MaxCount) ELSE n

\* where the worker goes on when _init_reader returns
AfterInit(ret, rdr) ==
    IF ret = "recover" THEN "recover_done"
    ELSE IF rdr = "none" THEN "no_reader" ELSE "read"


(***************************************************************************)
(* RFIDManager._read_loop, one action per step of the worker.              *)
(***************************************************************************)
ctlvars == <<ctl_pc, n_started, start_refused, stop_returned>>
envvars == <<has_noblock, gpio_avail, script>>
histvars == <<recoverAt, cbLog, cb_raised, delivered_after_raise, reads_after_stop,
              cb_after_stop, late>>

\* a loop whose condition never sees the stop event
LoopIgnoresStop == FALSE

\* line 128: the loop ends when the stop event is seen set
LoopExits == stop_event

\* line 128: while not self._stop_event.is_set(); lines 130-131
LoopCheck ==
    /\ r_pc = "while"
    /\ IF LoopExits THEN r_pc' = "dead" /\ UNCHANGED <<r_lock, r_ret>>
       ELSE IF reader = "none"
            THEN r_pc' = "ctor1" /\ r_lock' = TRUE /\ r_ret' = "loop"
            ELSE r_pc' = "read" /\ UNCHANGED <<r_lock, r_ret>>
    /\ UNCHANGED <<stop_event, reader, consecutive_errors, elapsed, tid, rst_owned, sim_pos,
                   n_pulse, ctlvars, envvars, histvars, lvars, ovars>>

\* SimpleMFRC522() succeeds or raises; the simulated readers' constructor is a mock
\* that always returns the handle
CtorResults == IF script = <<>> THEN BOOLEAN ELSE {TRUE}

\* _init_reader lines 85-90: the first SimpleMFRC522()
InitCtor1 ==
    /\ r_pc = "ctor1"
    /\ \E ok \in CtorResults :
         IF ok
         THEN /\ reader' = "handle"
              /\ r_lock' = FALSE
              /\ r_pc' = AfterInit(r_ret, "handle")
              /\ UNCHANGED <<elapsed, n_pulse>>
         ELSE /\ elapsed' = HwResetElapsed(elapsed)
              /\ n_pulse' = HwResetPulses(n_pulse)
              /\ r_pc' = "ctor2"
              /\ UNCHANGED <<reader, r_lock>>
    /\ UNCHANGED <<stop_event, r_ret, consecutive_errors, tid, rst_owned, sim_pos,
                   ctlvars, envvars, histvars, lvars, ovars>>

\* _init_reader lines 91-95: the second SimpleMFRC522(), after the reset pulse
InitCtor2 ==
    /\ r_pc = "ctor2"
    /\ \E ok \in CtorResults :
         /\ reader' = IF ok THEN "handle" ELSE "none"
         /\ r_pc' = AfterInit(r_ret, reader')
    /\ r_lock' = FALSE
    /\ UNCHANGED <<stop_event, r_ret, consecutive_errors, elapsed, tid, rst_owned, sim_pos,
                   n_pulse, ctlvars, envvars, histvars, lvars, ovars>>

\* lines 133-136: the handle is still absent: sleep 1.0 and continue
NoReaderSleep ==
    /\ r_pc = "no_reader"
    /\ elapsed' = Adv(elapsed, NoReaderDs)
    /\ r_pc' = "while"
    /\ UNCHANGED <<stop_event, reader, r_lock, r_ret, consecutive_errors, tid, rst_owned,
                   sim_pos, n_pulse, ctlvars, envvars, histvars, lvars, ovars>>

\* lines 139-145: the hardware read is entered
ReadCall ==
    /\ r_pc = "read"
    /\ r_pc' = "reading"
    /\ reads_after_stop' = IF stop_event THEN Min(reads_after_stop + 1, MaxAfterStop)
                           ELSE reads_after_stop
    /\ UNCHANGED <<stop_event, reader, r_lock, r_ret, consecutive_errors, elapsed, tid,
                   rst_owned, sim_pos, n_pulse, ctlvars, envvars, recoverAt, cbLog,
                   cb_raised, delivered_after_raise, cb_after_stop, late, lvars, ovars>>

\* what the read in progress may return, and after how long
ReadResults ==
    IF sim_pos < Len(script) THEN {<<script[sim_pos + 1], 0>>}
    ELSE IF script # <<>> THEN {<<NoTag, 0>>}
    ELSE ReadOutcomes \X Latencies

\* a blocking read() whose exception reaches the handler of the loop body
SeenOutcomeUncaught(raw) == raw

\* lines 144-147: an exception of the blocking read() is swallowed into tag_id = None
SeenOutcome(raw) == IF ~has_noblock /\ raw = Err THEN NoTag ELSE raw

\* a loop that reports a tag only when it differs from the tag reported last
AfterReadOncePerTag(raw) ==
    CASE raw = Err -> "except"
      [] raw = NoTag -> "sleep_poll"
      [] OTHER -> IF ParseTag(raw) = -1 THEN "while"
                  ELSE IF cbLog # <<>> /\ cbLog[Len(cbLog)] = ParseTag(raw) THEN "sleep_poll"
                  ELSE "callback"

\* lines 149-177 and 179: where the result of the read takes the worker
AfterRead(raw) ==
    CASE raw = Err -> "except"
      [] raw = NoTag -> "sleep_poll"
      [] OTHER -> IF ParseTag(raw) = -1 THEN "while" ELSE "callback"

\* lines 141-165: the hardware read returns (or raises) and the tag id is parsed
ReadReturn ==
    /\ r_pc = "reading"
    /\ \E res \in ReadResults :
         /\ elapsed' = Adv(elapsed, res[2])
         /\ r_pc' = AfterRead(SeenOutcome(res[1]))
         /\ tid' = IF r_pc' = "callback" THEN ParseTag(res[1]) ELSE -1
    /\ sim_pos' = Min(sim_pos + 1, Len(script))
    /\ UNCHANGED <<stop_event, reader, r_lock, r_ret, consecutive_errors, rst_owned,
                   n_pulse, ctlvars, envvars, histvars, lvars, ovars>>

\* line 168: self._on_tag(tid) is entered
CallbackCall ==
    /\ r_pc = "callback"
    /\ r_pc' = "in_callback"
    /\ cbLog' = IF Logging /\ Len(cbLog) < MaxLog THEN Append(cbLog, tid) ELSE cbLog
    /\ delivered_after_raise' = (delivered_after_raise \/ cb_raised)
    /\ cb_after_stop' = IF stop_event THEN Min(cb_after_stop + 1, MaxAfterStop)
                        ELSE cb_after_stop
    /\ late' = Late("callback")
    /\ UNCHANGED <<stop_event, reader, r_lock, r_ret, consecutive_errors, elapsed, tid,
                   rst_owned, sim_pos, n_pulse, ctlvars, envvars, recoverAt, cb_raised,
                   reads_after_stop, lvars, ovars>>

\* a callback whose exception reaches the handler of the loop body
AfterCallbackUncaught(raised) == IF raised THEN "except" ELSE "debounce"

\* where an exception raised by the callback takes the worker: lines 169-170 catch it
AfterCallback(raised) == "debounce"

\* lines 167-172: the callback returns or raises; last_success and the counter are reset
CallbackReturn ==
    /\ r_pc = "in_callback"
    /\ \E raised \in BOOLEAN :
         /\ cb_raised' = (cb_raised \/ raised)
         /\ r_pc' = AfterCallback(raised)
    /\ IF r_pc' = "debounce"
       THEN elapsed' = 0 /\ consecutive_errors' = 0
       ELSE UNCHANGED <<elapsed, consecutive_errors>>
    /\ tid' = -1
    /\ UNCHANGED <<stop_event, reader, r_lock, r_ret, rst_owned, sim_pos, n_pulse,
                   ctlvars, envvars, recoverAt, cbLog, delivered_after_raise,
                   reads_after_stop, cb_after_stop, late, lvars, ovars>>

\* line 174: time.sleep(1.0)
Debounce ==
    /\ r_pc = "debounce"
    /\ elapsed' = Adv(elapsed, DebounceDs)
    /\ r_pc' = "while"
    /\ UNCHANGED <<stop_event, reader, r_lock, r_ret, consecutive_errors, tid, rst_owned,
                   sim_pos, n_pulse, ctlvars, envvars, histvars, lvars, ovars>>

\* line 177: time.sleep(self._poll_interval)
SleepPoll ==
    /\ r_pc = "sleep_poll"
    /\ elapsed' = Adv(elapsed, PollDs)
    /\ r_pc' = "while"
    /\ UNCHANGED <<stop_event, reader, r_lock, r_ret, consecutive_errors, tid, rst_owned,
                   sim_pos, n_pulse, ctlvars, envvars, histvars, lvars, ovars>>

\* the test with > in the place of >=
NeedsResetStrict(errors, since) == errors > ErrorThreshold \/ since > TimeoutDs

\* the test without the time since the last success
NeedsResetCountOnly(errors, since) == errors >= ErrorThreshold

\* line 183: the test that sends the handler into the reset-and-reinit cycle
NeedsReset(errors, since) == errors >= ErrorThreshold \/ since > TimeoutDs

\* lines 179-183: the handler of an exception in the loop body
Except ==
    /\ r_pc = "except"
    /\ consecutive_errors' = consecutive_errors + 1
    /\ r_pc' = IF NeedsReset(consecutive_errors', elapsed) THEN "recover" ELSE "backoff"
    /\ UNCHANGED <<stop_event, reader, r_lock, r_ret, elapsed, tid, rst_owned, sim_pos,
                   n_pulse, ctlvars, envvars, histvars, lvars, ovars>>

\* lines 185-189: the reset pulse, the handle dropped under the lock, _init_reader entered
RecoverReset ==
    /\ r_pc = "recover"
    /\ elapsed' = HwResetElapsed(elapsed)
    /\ n_pulse' = HwResetPulses(n_pulse)
    /\ reader' = "none"
    /\ r_lock' = TRUE
    /\ r_ret' = "recover"
    /\ r_pc' = "ctor1"
    /\ recoverAt' = IF Logging /\ Len(recoverAt) < MaxCount THEN Append(recoverAt, sim_pos)
                    ELSE recoverAt
    /\ late' = Late("reset")
    /\ UNCHANGED <<stop_event, consecutive_errors, tid, rst_owned, sim_pos, ctlvars,
                   envvars, cbLog, cb_raised, delivered_after_raise, reads_after_stop,
                   cb_after_stop, lvars, ovars>>

CountKeptWithoutHandle(errors, rdr) == IF rdr = "handle" THEN 0 ELSE errors

\* line 192: consecutive_errors = 0, whatever _init_reader achieved
CountAfterRecovery(errors, rdr) == 0

\* line 192, and line 193 reached
RecoverDone ==
    /\ r_pc = "recover_done"
    /\ consecutive_errors' = CountAfterRecovery(consecutive_errors, reader)
    /\ r_pc' = "backoff"
    /\ UNCHANGED <<stop_event, reader, r_lock, r_ret, elapsed, tid, rst_owned, sim_pos,
                   n_pulse, ctlvars, envvars, histvars, lvars, ovars>>

\* line 193: time.sleep(0.5)
Backoff ==
    /\ r_pc = "backoff"
    /\ elapsed' = Adv(elapsed, BackoffDs)
    /\ r_pc' = "while"
    /\ UNCHANGED <<stop_event, reader, r_lock, r_ret, consecutive_errors, tid, rst_owned,
                   sim_pos, n_pulse, ctlvars, envvars, histvars, lvars, ovars>>

\* the steps of the worker that do not wait for the hardware
WorkerStep ==
    \/ LoopCheck \/ InitCtor1 \/ InitCtor2 \/ NoReaderSleep \/ ReadCall
    \/ CallbackCall \/ Debounce \/ SleepPoll \/ Except \/ RecoverReset
    \/ RecoverDone \/ Backoff

\* the returns of the calls the worker waits in: the hardware read, the callback
CallReturns == ReadReturn \/ CallbackReturn


(***************************************************************************)
(* RFIDManager.start and RFIDManager.stop, called by one controlling       *)
(* thread.                                                                 *)
(***************************************************************************)
workervars == <<reader, r_lock, r_ret, tid, sim_pos, n_pulse>>

\* lines 97-107: start(); a new worker begins with last_success = now and no errors
Start ==
    /\ ctl_pc = "idle"
    /\ IF ThreadAlive \/ n_started >= MaxStarts
       THEN /\ start_refused' = (start_refused \/ (ThreadAlive /\ Logging))
            /\ UNCHANGED <<stop_event, r_pc, consecutive_errors, elapsed, n_started,
                           reads_after_stop, cb_after_stop, late>>
       ELSE /\ stop_event' = FALSE
            /\ UNCHANGED start_refused
            /\ r_pc' = "while"
            /\ consecutive_errors' = 0
            /\ elapsed' = 0
            /\ n_started' = n_started + 1
            /\ reads_after_stop' = 0
            /\ cb_after_stop' = 0
            /\ late' = {}
    /\ UNCHANGED <<workervars, rst_owned, ctl_pc, stop_returned, envvars, recoverAt, cbLog,
                   cb_raised, delivered_after_raise, lvars, ovars>>

\* lines 110-112: stop() sets the stop event
StopCall ==
    /\ ctl_pc = "idle"
    /\ stop_event' = TRUE
    /\ ctl_pc' = IF n_started > 0 THEN "join" ELSE "cleanup"
    /\ UNCHANGED <<workervars, r_pc, consecutive_errors, elapsed, rst_owned, n_started,
                   start_refused, stop_returned, envvars, histvars, lvars, ovars>>

\* a join without its timeout
JoinWaits == ~ThreadAlive

\* line 113: join(timeout=2.0) comes back when the worker has exited or the 2 s are over
JoinReturns == ~ThreadAlive \/ TRUE

\* line 113: self._thread.join(timeout=2.0)
StopJoin ==
    /\ ctl_pc = "join"
    /\ JoinReturns
    /\ ctl_pc' = "cleanup"
    /\ UNCHANGED <<stop_event, workervars, r_pc, consecutive_errors, elapsed, rst_owned,
                   n_started, start_refused, stop_returned, envvars, histvars, lvars,
                   ovars>>

\* lines 114-118: GPIO.cleanup(self._pin_rst), then stop() returns
StopCleanup ==
    /\ ctl_pc = "cleanup"
    /\ rst_owned' = IF gpio_avail THEN FALSE ELSE rst_owned
    /\ ctl_pc' = "idle"
    /\ stop_returned' = TRUE
    /\ UNCHANGED <<stop_event, workervars, r_pc, consecutive_errors, elapsed, n_started,
                   start_refused, envvars, histvars, lvars, ovars>>

\* the steps of the controlling thread inside stop()
StopStep == StopJoin \/ StopCleanup

NextReader == WorkerStep \/ CallReturns \/ Start \/ StopCall \/ StopStep


(***************************************************************************)
(* LEDManager: threads, colours and frames.                                *)
(***************************************************************************)
Callers == {1, 2}
Comets == 1..MaxComet
Flashes == 1..MaxFlash
Pix == 0..(LedCount - 1)

Free == <<"free", 0>>
Caller(c) == <<"caller", c>>
Comet(w) == <<"comet", w>>
Flash(f) == <<"flash", f>>

\* _get_count: neither led_count nor _count is ever set on the manager
GetCount == 16

Off == <<0, 0, 0>>
White == <<255, 255, 255>>
ReadyColor == <<0, 50, 0>>
FlashColor == <<0, 255, 0>>
ScanColor == <<0, 255, 0>>
StandbyColor == <<0, 8, 0>>
Trail == 2

\* a loop of setPixelColor(i, col) over the whole strip
Solid(col) == [i \in Pix |-> col]

\* the strip after a loop writing frame[j] for j in range(n): the driver drops the
\* writes to indices the strip does not have
WriteRange(buf, n, frame) == [i \in Pix |-> IF i < n THEN frame[i] ELSE buf[i]]

\* lines 191-193: frame i of welcome_scan
WelcomeFrame(buf, i) ==
    WriteRange(buf, GetCount, [j \in 0..(GetCount - 1) |-> IF j <= i THEN ScanColor ELSE Off])

\* lines 209-211: frame i of farewell_scan
FarewellFrame(buf, i) ==
    WriteRange(buf, GetCount, [j \in 0..(GetCount - 1) |-> IF j < i THEN ScanColor ELSE Off])

\* lines 161-165 and 330-332: count pixels switched off
OffFrame(buf) == WriteRange(buf, GetCount, [j \in 0..(GetCount - 1) |-> Off])

\* lines 155-158: _fill
FillFrame(buf, col) == WriteRange(buf, GetCount, [j \in 0..(GetCount - 1) |-> col])

\* lines 290-296: the comet's frame with its head at idx; of the trail's writes to one
\* pixel the last one stays
CometFrame(buf, idx) ==
    WriteRange(buf, GetCount,
      [j \in 0..(GetCount - 1) |->
         LET hits == {t \in 0..Trail : (idx - t) % GetCount = j}
         IN IF hits = {} THEN Off
            ELSE LET t == CHOOSE u \in hits : \A x \in hits : x <= u
                 IN <<StandbyColor[1], Max(1, StandbyColor[2] - t * 2), StandbyColor[3]>>])

\* lines 290-296: the indices the comet's frame with its head at idx is written to
CometIndices(idx) == (0..(GetCount - 1)) \cup {(idx - t) % GetCount : t \in 0..Trail}

\* round() of the fraction num/den, halves to the even neighbour
RoundHalfEven(num, den) ==
    LET q == num \div den
        r == num % den
    IN IF 2 * r < den THEN q
       ELSE IF 2 * r > den THEN q + 1
       ELSE IF q % 2 = 0 THEN q ELSE q + 1

\* lines 224-226: the lit count for a ratio given in percent
RemainLeds(pct) == RoundHalfEven(LedCount * Max(0, Min(100, pct)), 100)

\* lines 248-252: the first remain_leds pixels white, the others off
RemainFrame(buf, k) ==
    WriteRange(buf, LedCount, [j \in 0..(LedCount - 1) |-> IF j < k THEN White ELSE Off])

\* ratios the callers pass to remaining_progress, in percent
Ratios == {-50, 50, 150}

\* LEDManager.__init__ with the ring enabled and the strip built
InitLed ==
    /\ led_lock = Free
    /\ pixels = Solid(Off)
    /\ last_remain_count = -1
    /\ standby_running = FALSE
    /\ standby_stop = 0
    /\ ev_set = [w \in Comets |-> FALSE]
    /\ w_pc = [w \in Comets |-> "dead"]
    /\ w_idx = [w \in Comets |-> 0]
    /\ w_frames = [w \in Comets |-> 0]
    /\ w_stopper = [w \in Comets |-> 0]
    /\ w_acked = [w \in Comets |-> FALSE]
    /\ f_pc = [f \in Flashes |-> "dead"]
    /\ f_saved = [f \in Flashes |-> Solid(Off)]
    /\ f_foreign = [f \in Flashes |-> FALSE]
    /\ f_result = [f \in Flashes |-> ""]
    /\ c_pc = [c \in Callers |-> "idle"]
    /\ c_arg = [c \in Callers |-> 0]
    /\ c_i = [c \in Callers |-> 0]
    /\ n_calls = 0
    /\ rp_shown = <<>>
    /\ ghost_write = FALSE
    /\ prev_start = "other"
    /\ second_created = FALSE
    /\ sd_state = "no"

\* the threads between a frame's first setPixelColor and its show()
InSection ==
    {Caller(c) : c \in {d \in Callers : c_pc[d] \in
        {"sr_show", "sd_show", "ws_off_show", "ws_show", "fs_fill_show", "fs_show",
         "fs_off_show", "rp_show", "sp_show"}}}
    \cup {Comet(w) : w \in {x \in Comets : w_pc[x] = "show"}}
    \cup {Flash(f) : f \in {x \in Flashes : f_pc[x] \in {"fill", "restore"}}}

\* the flash workers between their snapshot and the end of their flash
Flashing(f) == f_pc[f] \in {"fill", "hold", "restore"}

\* thread t writes buf into the pixel buffer
Draw(t, buf) ==
    /\ pixels' = buf
    /\ f_foreign' = [f \in Flashes |-> f_foreign[f] \/ (Flashing(f) /\ t # Flash(f))]

cometvars == <<standby_running, standby_stop, ev_set, w_pc, w_idx, w_frames, w_stopper,
               w_acked>>
flashvars == <<f_pc, f_saved, f_result>>
bufvars == <<pixels, f_foreign>>
startvars == <<prev_start, second_created>>

\* a worker thread writes a frame: late when a shutdown() that ran alone has returned
\* and no call has been made since
LateAfterShutdown == IF sd_state = "returned" THEN "late" ELSE sd_state

\* caller c begins a call that is not start_standby_comet
BeginCall(c) ==
    /\ c_pc[c] = "idle"
    /\ n_calls < MaxCalls
    /\ n_calls' = n_calls + 1
    /\ sd_state' = IF sd_state \in {"running", "returned"} THEN "reused" ELSE sd_state

\* caller c goes from position a to position b
Go(c, a, b) == c_pc[c] = a /\ c_pc' = [c_pc EXCEPT ![c] = b]


(***************************************************************************)
(* LEDManager's methods, run by the caller threads.  A call that writes    *)
(* under the lock begins when it gets the lock: a thread waiting for the   *)
(* lock has done nothing yet.                                              *)
(***************************************************************************)
\* lines 76-80: show_ready takes the lock and writes every pixel
ShowReadyDraw ==
    \E c \in Callers :
      /\ BeginCall(c)
      /\ led_lock = Free
      /\ led_lock' = Caller(c)
      /\ Draw(Caller(c), Solid(ReadyColor))
      /\ c_pc' = [c_pc EXCEPT ![c] = "sr_show"]
      /\ prev_start' = "other"
      /\ UNCHANGED <<last_remain_count, cometvars, flashvars, c_arg, c_i, rp_shown,
                     ghost_write, second_created, rvars, ovars>>

\* lines 81-84: show() and the lock released
ShowReadyShow ==
    \E c \in Callers :
      /\ Go(c, "sr_show", "idle")
      /\ led_lock' = Free
      /\ UNCHANGED <<bufvars, last_remain_count, cometvars, flashvars, c_arg, c_i, n_calls,
                     rp_shown, ghost_write, startvars, sd_state, rvars, ovars>>

\* lines 125-128: shutdown takes the lock and writes every pixel off
ShutdownDraw ==
    \E c \in Callers :
      /\ c_pc[c] = "idle"
      /\ n_calls < MaxCalls
      /\ n_calls' = n_calls + 1
      /\ sd_state' = IF \A d \in Callers : c_pc[d] = "idle" THEN "running" ELSE "reused"
      /\ led_lock = Free
      /\ led_lock' = Caller(c)
      /\ Draw(Caller(c), Solid(Off))
      /\ c_pc' = [c_pc EXCEPT ![c] = "sd_show"]
      /\ prev_start' = "other"
      /\ UNCHANGED <<last_remain_count, cometvars, flashvars, c_arg, c_i, rp_shown,
                     ghost_write, second_created, rvars, ovars>>

\* lines 129-137: show(), the lock released, the button pin cleaned up
ShutdownShow ==
    \E c \in Callers :
      /\ Go(c, "sd_show", "idle")
      /\ led_lock' = Free
      /\ sd_state' = IF sd_state = "running" THEN "returned" ELSE sd_state
      /\ UNCHANGED <<bufvars, last_remain_count, cometvars, flashvars, c_arg, c_i, n_calls,
                     rp_shown, ghost_write, startvars, rvars, ovars>>

\* lines 86-109: flash_confirm starts its worker and returns
FlashConfirm ==
    \E c \in Callers : \E f \in Flashes :
      /\ BeginCall(c)
      /\ f_pc[f] = "dead"
      /\ f_pc' = [f_pc EXCEPT ![f] = "start"]
      /\ f_foreign' = [f_foreign EXCEPT ![f] = FALSE]
      /\ f_result' = [f_result EXCEPT ![f] = ""]
      /\ prev_start' = "other"
      /\ UNCHANGED <<led_lock, pixels, last_remain_count, cometvars, f_saved, c_pc, c_arg,
                     c_i, rp_shown, ghost_write, second_created, rvars, ovars>>

\* lines 188-189: welcome_scan takes the lock; _off writes its pixels
WelcomeBegin ==
    \E c \in Callers :
      /\ BeginCall(c)
      /\ led_lock = Free
      /\ led_lock' = Caller(c)
      /\ Draw(Caller(c), OffFrame(pixels))
      /\ c_pc' = [c_pc EXCEPT ![c] = "ws_off_show"]
      /\ prev_start' = "other"
      /\ UNCHANGED <<last_remain_count, cometvars, flashvars, c_arg, c_i, rp_shown,
                     ghost_write, second_created, rvars, ovars>>

\* lines 165 and 190: _off's show(), then the 0.1 s sleep
WelcomeOffShow ==
    \E c \in Callers :
      /\ Go(c, "ws_off_show", "ws_frame")
      /\ c_i' = [c_i EXCEPT ![c] = 0]
      /\ UNCHANGED <<led_lock, bufvars, last_remain_count, cometvars, flashvars, c_arg,
                     n_calls, rp_shown, ghost_write, startvars, sd_state, rvars, ovars>>

\* lines 191-193: frame i is written
WelcomeFrameDraw ==
    \E c \in Callers :
      /\ Go(c, "ws_frame", "ws_show")
      /\ Draw(Caller(c), WelcomeFrame(pixels, c_i[c]))
      /\ UNCHANGED <<led_lock, last_remain_count, cometvars, flashvars, c_arg, c_i,
                     n_calls, rp_shown, ghost_write, startvars, sd_state, rvars, ovars>>

\* lines 194-195: frame i is shown; after the last frame the lock is released
WelcomeFrameShow ==
    \E c \in Callers :
      /\ c_pc[c] = "ws_show"
      /\ IF c_i[c] = GetCount - 1
         THEN /\ c_pc' = [c_pc EXCEPT ![c] = "idle"]
              /\ c_i' = [c_i EXCEPT ![c] = 0]
              /\ led_lock' = Free
         ELSE /\ c_pc' = [c_pc EXCEPT ![c] = "ws_frame"]
              /\ c_i' = [c_i EXCEPT ![c] = c_i[c] + 1]
              /\ UNCHANGED led_lock
      /\ UNCHANGED <<bufvars, last_remain_count, cometvars, flashvars, c_arg, n_calls,
                     rp_shown, ghost_write, startvars, sd_state, rvars, ovars>>

\* lines 206-207: farewell_scan takes the lock; _fill writes its pixels
FarewellBegin ==
    \E c \in Callers :
      /\ BeginCall(c)
      /\ led_lock = Free
      /\ led_lock' = Caller(c)
      /\ Draw(Caller(c), FillFrame(pixels, ScanColor))
      /\ c_pc' = [c_pc EXCEPT ![c] = "fs_fill_show"]
      /\ prev_start' = "other"
      /\ UNCHANGED <<last_remain_count, cometvars, flashvars, c_arg, c_i, rp_shown,
                     ghost_write, second_created, rvars, ovars>>

\* lines 159 and 208: _fill's show(), then the 0.1 s sleep
FarewellFillShow ==
    \E c \in Callers :
      /\ Go(c, "fs_fill_show", "fs_frame")
      /\ c_i' = [c_i EXCEPT ![c] = GetCount - 1]
      /\ UNCHANGED <<led_lock, bufvars, last_remain_count, cometvars, flashvars, c_arg,
                     n_calls, rp_shown, ghost_write, startvars, sd_state, rvars, ovars>>

\* lines 209-211: frame i is written
FarewellFrameDraw ==
    \E c \in Callers :
      /\ Go(c, "fs_frame", "fs_show")
      /\ Draw(Caller(c), FarewellFrame(pixels, c_i[c]))
      /\ UNCHANGED <<led_lock, last_remain_count, cometvars, flashvars, c_arg, c_i,
                     n_calls, rp_shown, ghost_write, startvars, sd_state, rvars, ovars>>

\* lines 212-213: frame i is shown; after frame 0 comes _off
FarewellFrameShow ==
    \E c \in Callers :
      /\ c_pc[c] = "fs_show"
      /\ IF c_i[c] = 0
         THEN c_pc' = [c_pc EXCEPT ![c] = "fs_off"] /\ UNCHANGED c_i
         ELSE /\ c_pc' = [c_pc EXCEPT ![c] = "fs_frame"]
              /\ c_i' = [c_i EXCEPT ![c] = c_i[c] - 1]
      /\ UNCHANGED <<led_lock, bufvars, last_remain_count, cometvars, flashvars, c_arg,
                     n_calls, rp_shown, ghost_write, startvars, sd_state, rvars, ovars>>

\* line 214: _off writes its pixels
FarewellOffDraw ==
    \E c \in Callers :
      /\ Go(c, "fs_off", "fs_off_show")
      /\ Draw(Caller(c), OffFrame(pixels))
      /\ UNCHANGED <<led_lock, last_remain_count, cometvars, flashvars, c_arg, c_i,
                     n_calls, rp_shown, ghost_write, startvars, sd_state, rvars, ovars>>

\* line 165: _off's show(); the lock is released
FarewellOffShow ==
    \E c \in Callers :
      /\ Go(c, "fs_off_show", "idle")
      /\ led_lock' = Free
      /\ UNCHANGED <<bufvars, last_remain_count, cometvars, flashvars, c_arg, c_i, n_calls,
                     rp_shown, ghost_write, startvars, sd_state, rvars, ovars>>

\* lines 229-231: the quick test before the lock
QuickSame(k) == last_remain_count = k

\* no second test under the lock
NoRecheck(k) == FALSE

\* lines 240-242: the test repeated under the lock
RecheckSame(k) == last_remain_count = k

\* lines 224-235: remaining_progress computes the count and returns if it is the cached one
RemainingCall ==
    \E c \in Callers : \E pct \in Ratios :
      /\ BeginCall(c)
      /\ IF QuickSame(RemainLeds(pct))
         THEN UNCHANGED <<c_pc, c_arg>>
         ELSE /\ c_pc' = [c_pc EXCEPT ![c] = "rp_acq"]
              /\ c_arg' = [c_arg EXCEPT ![c] = RemainLeds(pct)]
      /\ prev_start' = "other"
      /\ UNCHANGED <<led_lock, bufvars, last_remain_count, cometvars, flashvars, c_i,
                     rp_shown, ghost_write, second_created, rvars, ovars>>

\* lines 238-252: under the lock, the test again, the count cached, the pixels written
RemainingLocked ==
    \E c \in Callers :
      /\ c_pc[c] = "rp_acq"
      /\ led_lock = Free
      /\ IF RecheckSame(c_arg[c])
         THEN /\ c_pc' = [c_pc EXCEPT ![c] = "idle"]
              /\ UNCHANGED <<led_lock, bufvars, last_remain_count>>
         ELSE /\ led_lock' = Caller(c)
              /\ last_remain_count' = c_arg[c]
              /\ Draw(Caller(c), RemainFrame(pixels, c_arg[c]))
              /\ c_pc' = [c_pc EXCEPT ![c] = "rp_show"]
      /\ UNCHANGED <<cometvars, flashvars, c_arg, c_i, n_calls, rp_shown, ghost_write,
                     startvars, sd_state, rvars, ovars>>

\* line 255: the single show(); the lock is released
RemainingShow ==
    \E c \in Callers :
      /\ Go(c, "rp_show", "idle")
      /\ led_lock' = Free
      /\ rp_shown' = Append(rp_shown, c_arg[c])
      /\ UNCHANGED <<bufvars, last_remain_count, cometvars, flashvars, c_arg, c_i, n_calls,
                     ghost_write, startvars, sd_state, rvars, ovars>>

\* line 275: getattr(self, '_standby_running', False)
AlreadyRunning == standby_running

\* the other caller threads are all outside any call
OthersIdle(c) == \A d \in Callers \ {c} : c_pc[d] = "idle"

\* lines 269-276: start_standby_comet returns if the flag says a comet is running
StartCheck ==
    \E c \in Callers :
      /\ BeginCall(c)
      /\ IF AlreadyRunning
         THEN /\ prev_start' = IF OthersIdle(c) THEN "started" ELSE "other"
              /\ UNCHANGED <<c_pc, c_arg>>
         ELSE /\ prev_start' = IF OthersIdle(c) THEN "starting" ELSE "other"
              /\ c_pc' = [c_pc EXCEPT ![c] = "st_create"]
              /\ c_arg' = [c_arg EXCEPT ![c] =
                             IF prev_start = "started" /\ OthersIdle(c) THEN 1 ELSE 0]
      /\ UNCHANGED <<led_lock, bufvars, last_remain_count, cometvars, flashvars, c_i,
                     rp_shown, ghost_write, second_created, rvars, ovars>>

\* lines 278-314: a new Event, the flag set, the worker thread started
StartCreate ==
    \E c \in Callers :
      /\ Go(c, "st_create", "idle")
      /\ \E w \in Comets :
           /\ w_pc[w] = "dead"
           /\ \A x \in Comets : x < w => w_pc[x] # "dead"
           /\ standby_stop' = w
           /\ ev_set' = [ev_set EXCEPT ![w] = FALSE]
           /\ w_pc' = [w_pc EXCEPT ![w] = "check"]
           /\ w_idx' = [w_idx EXCEPT ![w] = 0]
           /\ w_frames' = [w_frames EXCEPT ![w] = 0]
           /\ w_stopper' = [w_stopper EXCEPT ![w] = 0]
           /\ w_acked' = [w_acked EXCEPT ![w] = FALSE]
      /\ standby_running' = TRUE
      /\ second_created' = (second_created \/ (prev_start = "starting" /\ c_arg[c] = 1))
      /\ prev_start' = IF prev_start = "starting" THEN "started" ELSE "other"
      /\ UNCHANGED <<led_lock, bufvars, last_remain_count, flashvars, c_arg, c_i, n_calls,
                     rp_shown, ghost_write, sd_state, rvars, ovars>>

\* the thread stop_standby_comet writes its blank frame as: it takes no lock
StopWriter(c) == Caller(c)

\* lines 318-332: stop_standby_comet sets the current Event, clears the flag and
\* writes the ring off
StopBegin ==
    \E c \in Callers :
      /\ BeginCall(c)
      /\ IF standby_stop # 0
         THEN /\ ev_set' = [ev_set EXCEPT ![standby_stop] = TRUE]
              /\ standby_running' = FALSE
              /\ w_stopper' = [w_stopper EXCEPT ![standby_stop] =
                                 IF w_pc[standby_stop] = "dead" THEN 0 ELSE c]
         ELSE UNCHANGED <<ev_set, standby_running, w_stopper>>
      /\ Draw(StopWriter(c), OffFrame(pixels))
      /\ c_pc' = [c_pc EXCEPT ![c] = "sp_show"]
      /\ prev_start' = "other"
      /\ UNCHANGED <<led_lock, last_remain_count, standby_stop, w_pc, w_idx, w_frames,
                     w_acked, flashvars, c_arg, c_i, rp_shown, ghost_write, second_created,
                     rvars, ovars>>

\* line 333: show(), and stop_standby_comet returns
StopShow ==
    \E c \in Callers :
      /\ Go(c, "sp_show", "idle")
      /\ w_acked' = [w \in Comets |-> w_acked[w] \/ w_stopper[w] = c]
      /\ w_stopper' = [w \in Comets |-> IF w_stopper[w] = c THEN 0 ELSE w_stopper[w]]
      /\ UNCHANGED <<led_lock, bufvars, last_remain_count, standby_running, standby_stop,
                     ev_set, w_pc, w_idx, w_frames, flashvars, c_arg, c_i, n_calls,
                     rp_shown, ghost_write, startvars, sd_state, rvars, ovars>>

(***************************************************************************)
(* The standby comet worker (_run of start_standby_comet).                 *)
(***************************************************************************)
\* line 285: while not stop_ev.is_set(); line 311 on exit
CometCheck ==
    \E w \in Comets :
      /\ w_pc[w] = "check"
      /\ IF ev_set[w]
         THEN /\ w_pc' = [w_pc EXCEPT ![w] = "dead"]
              /\ standby_running' = FALSE
              /\ w_stopper' = [w_stopper EXCEPT ![w] = 0]
              /\ w_acked' = [w_acked EXCEPT ![w] = FALSE]
         ELSE /\ w_frames[w] < MaxFrames
              /\ w_pc' = [w_pc EXCEPT ![w] = "acq"]
              /\ UNCHANGED <<standby_running, w_stopper, w_acked>>
      /\ UNCHANGED <<led_lock, bufvars, last_remain_count, standby_stop, ev_set, w_idx,
                     w_frames, flashvars, c_pc, c_arg, c_i, n_calls, rp_shown, ghost_write,
                     startvars, sd_state, rvars, ovars>>

\* lines 288-296: the lock taken and the frame written
CometDraw ==
    \E w \in Comets :
      /\ w_pc[w] = "acq"
      /\ led_lock = Free
      /\ led_lock' = Comet(w)
      /\ Draw(Comet(w), CometFrame(pixels, w_idx[w]))
      /\ w_pc' = [w_pc EXCEPT ![w] = "show"]
      /\ w_frames' = [w_frames EXCEPT ![w] = w_frames[w] + 1]
      /\ ghost_write' = (ghost_write \/ w_acked[w])
      /\ sd_state' = LateAfterShutdown
      /\ UNCHANGED <<last_remain_count, standby_running, standby_stop, ev_set, w_idx,
                     w_stopper, w_acked, flashvars, c_pc, c_arg, c_i, n_calls, rp_shown,
                     startvars, rvars, ovars>>

\* lines 297-300: show(), the lock released, idx advanced
CometShow ==
    \E w \in Comets :
      /\ w_pc[w] = "show"
      /\ led_lock' = Free
      /\ w_idx' = [w_idx EXCEPT ![w] = (w_idx[w] + 1) % GetCount]
      /\ w_pc' = [w_pc EXCEPT ![w] = "wait"]
      /\ UNCHANGED <<bufvars, last_remain_count, standby_running, standby_stop, ev_set,
                     w_frames, w_stopper, w_acked, flashvars, c_pc, c_arg, c_i, n_calls,
                     rp_shown, ghost_write, startvars, sd_state, rvars, ovars>>

\* lines 303-306: the delay, in 0.5 s sleeps that end early once the event is set
CometWait ==
    \E w \in Comets :
      /\ w_pc[w] = "wait"
      /\ w_pc' = [w_pc EXCEPT ![w] = "check"]
      /\ UNCHANGED <<led_lock, bufvars, last_remain_count, standby_running, standby_stop,
                     ev_set, w_idx, w_frames, w_stopper, w_acked, flashvars, c_pc, c_arg,
                     c_i, n_calls, rp_shown, ghost_write, startvars, sd_state, rvars, ovars>>

(***************************************************************************)
(* The flash worker (_flash of flash_confirm).                             *)
(***************************************************************************)
\* lines 93-99: the lock taken, the pixels saved, the colour written
FlashFill ==
    \E f \in Flashes :
      /\ f_pc[f] = "start"
      /\ led_lock = Free
      /\ led_lock' = Flash(f)
      /\ f_saved' = [f_saved EXCEPT ![f] = pixels]
      /\ Draw(Flash(f), Solid(FlashColor))
      /\ sd_state' = LateAfterShutdown
      /\ f_pc' = [f_pc EXCEPT ![f] = "fill"]
      /\ UNCHANGED <<last_remain_count, cometvars, f_result, c_pc, c_arg, c_i, n_calls,
                     rp_shown, ghost_write, startvars, rvars, ovars>>

\* lines 100-101: show(), then the sleep of the flash
FlashFillShow ==
    \E f \in Flashes :
      /\ f_pc[f] = "fill"
      /\ f_pc' = [f_pc EXCEPT ![f] = "hold"]
      /\ UNCHANGED <<led_lock, bufvars, last_remain_count, cometvars, f_saved, f_result,
                     c_pc, c_arg, c_i, n_calls, rp_shown, ghost_write, startvars, sd_state, rvars, ovars>>

\* lines 102-103: the saved pixels written back
FlashRestore ==
    \E f \in Flashes :
      /\ f_pc[f] = "hold"
      /\ Draw(Flash(f), f_saved[f])
      /\ f_pc' = [f_pc EXCEPT ![f] = "restore"]
      /\ UNCHANGED <<led_lock, last_remain_count, cometvars, f_saved, f_result, c_pc,
                     c_arg, c_i, n_calls, rp_shown, ghost_write, startvars, sd_state, rvars, ovars>>

\* line 104: show(); the lock is released and the worker ends
FlashRestoreShow ==
    \E f \in Flashes :
      /\ f_pc[f] = "restore"
      /\ led_lock' = Free
      /\ f_pc' = [f_pc EXCEPT ![f] = "dead"]
      /\ f_result' = [f_result EXCEPT ![f] =
                        IF pixels = f_saved[f] THEN "restored" ELSE "clobbered"]
      /\ UNCHANGED <<bufvars, last_remain_count, cometvars, f_saved, c_pc, c_arg, c_i,
                     n_calls, rp_shown, ghost_write, startvars, sd_state, rvars, ovars>>

NextLed ==
    \/ ShowReadyDraw \/ ShowReadyShow \/ ShutdownDraw \/ ShutdownShow \/ FlashConfirm
    \/ WelcomeBegin \/ WelcomeOffShow \/ WelcomeFrameDraw \/ WelcomeFrameShow
    \/ FarewellBegin \/ FarewellFillShow \/ FarewellFrameDraw \/ FarewellFrameShow
    \/ FarewellOffDraw \/ FarewellOffShow
    \/ RemainingCall \/ RemainingLocked \/ RemainingShow
    \/ StartCheck \/ StartCreate \/ StopBegin \/ StopShow
    \/ CometCheck \/ CometDraw \/ CometShow \/ CometWait
    \/ FlashFill \/ FlashFillShow \/ FlashRestore \/ FlashRestoreShow

(***************************************************************************)
(* MappingsDB, the frontend's mapping helpers and the admin handlers.      *)
(***************************************************************************)
StoreThreads == {1, 2}
Tags == {"t1", "t2"}
Uris == {"a", "b"}
Descriptions == {"", "d"}

\* self._config_mappings: the fallback table of the configuration
ConfigMappings == [t \in {"t1"} |-> "c"]

\* None as get() returns it
NoMapping == [found |-> FALSE, uri |-> "", description |-> ""]

\* None as get_mapping() returns it
NoUri == "none"

Row(t, a, d) == [tag |-> t, uri |-> a, description |-> d]

\* the rows of a tag
RowsOf(rows, t) == {r \in rows : r.tag = t}

RowToDictNoDescription(r) == [found |-> TRUE, uri |-> r.uri, description |-> ""]

\* the dict get() and list_all() build of a fetched row
RowToDict(r) == [found |-> TRUE, uri |-> r.uri, description |-> r.description]

\* SELECT uri, description FROM mappings WHERE tag = ?, then fetchone()
FetchOne(rows, t) ==
    IF RowsOf(rows, t) = {} THEN NoMapping
    ELSE RowToDict(CHOOSE r \in RowsOf(rows, t) : TRUE)

InsertOnly(rows, t, a, d) == rows \cup {Row(t, a, d)}

\* INSERT OR REPLACE INTO mappings, tag being the primary key
InsertOrReplace(rows, t, a, d) == (rows \ RowsOf(rows, t)) \cup {Row(t, a, d)}

\* DELETE FROM mappings WHERE tag = ?
DeleteFrom(rows, t) == rows \ RowsOf(rows, t)

RowCountAll(rows, t) == Cardinality(rows)

\* cur.rowcount of that DELETE
RowCount(rows, t) == Cardinality(RowsOf(rows, t))

\* SELECT tag, uri, description FROM mappings, as the dict list_all() builds
ListAll(rows) ==
    [t \in {r.tag : r \in rows} |-> RowToDict(CHOOSE r \in RowsOf(rows, t) : TRUE)]

KeepStaged(rows, tx) == tx

\* conn.close() without a commit: the staged statement is discarded
Rollback(rows, tx) == rows

\* Frontend.get_mapping on what the store's get() returned
GetMapping(mapping, t) ==
    IF mapping.found THEN mapping.uri
    ELSE IF t \in DOMAIN ConfigMappings THEN ConfigMappings[t] ELSE NoUri

ListConfigFirst(out) ==
    [t \in DOMAIN out \cup DOMAIN ConfigMappings |->
        IF t \in DOMAIN ConfigMappings
        THEN [found |-> TRUE, uri |-> ConfigMappings[t], description |-> ""]
        ELSE out[t]]

\* Frontend.list_mappings on what the store's list_all() returned
ListMappings(out) ==
    [t \in DOMAIN out \cup DOMAIN ConfigMappings |->
        IF t \in DOMAIN out THEN out[t]
        ELSE [found |-> TRUE, uri |-> ConfigMappings[t], description |-> ""]]

\* what set() hands back to its caller, applied or not
SetReturn(applied) == "None"

\* the ok of MappingsHandler.post's response once set_mapping(...).get() has returned
PostOk(ret) == TRUE

\* the ok of MappingDeleteHandler.delete's response
DeleteOk(ok) == ok

\* the operations the threads call
StoreOps ==
    [op : {"get", "delete"}, tag : Tags, uri : {""}, description : {""}]
    \cup [op : {"set"}, tag : Tags, uri : Uris, description : Descriptions]
    \cup {[op |-> "list", tag |-> "", uri |-> "", description |-> ""]}

NoOp == [op |-> "none", tag |-> "", uri |-> "", description |-> ""]

\* what th's operation returns, with the mappings the applied writes had left when it
\* read or wrote the table
Result(th, fault, mapping, deleted, listing) ==
    LET o == s_op[th] IN
    [op |-> o.op, tag |-> o.tag, uri |-> o.uri, description |-> o.description,
     fault |-> fault,
     mapping |-> mapping,
     deleted |-> deleted,
     listing |-> listing,
     ret |-> SetReturn(~fault),
     fe_uri |-> GetMapping(mapping, o.tag),
     fe_list |-> ListMappings(listing),
     http_ok |-> IF o.op = "delete" THEN DeleteOk(deleted) ELSE PostOk(SetReturn(~fault)),
     exp |-> expect,
     prev |-> IF o.tag \in Tags THEN last_mut[o.tag] ELSE "none",
     overlap |-> \E ot \in StoreThreads \ {th} : s_pc[ot] # "idle"]

\* the except branch of each operation: None, False, {} and nothing for set
FaultResult(th) == Result(th, TRUE, NoMapping, FALSE, ListAll({}))

NoResult ==
    [op |-> "none", tag |-> "", uri |-> "", description |-> "", fault |-> FALSE,
     mapping |-> NoMapping, deleted |-> FALSE, listing |-> ListAll({}), ret |-> "None",
     fe_uri |-> NoUri, fe_list |-> ListAll({}), http_ok |-> FALSE,
     exp |-> [t \in Tags |-> NoMapping], prev |-> "none", overlap |-> FALSE]

InitStore ==
    /\ db_rows = {}
    /\ db_lock = 0
    /\ db_tx = [th \in StoreThreads |-> {}]
    /\ s_pc = [th \in StoreThreads |-> "idle"]
    /\ s_op = [th \in StoreThreads |-> NoOp]
    /\ s_rowcount = [th \in StoreThreads |-> 0]
    /\ s_res = [th \in StoreThreads |-> NoResult]
    /\ expect = [t \in Tags |-> NoMapping]
    /\ last_mut = [t \in Tags |-> "none"]
    /\ n_ops = 0

\* a thread calls get, set, delete or list_all
StoreCall(th) ==
    /\ s_pc[th] = "idle"
    /\ n_ops < MaxOps
    /\ \E o \in StoreOps : s_op' = [s_op EXCEPT ![th] = o]
    /\ s_pc' = [s_pc EXCEPT ![th] = "lock"]
    /\ n_ops' = n_ops + 1
    /\ UNCHANGED <<db_rows, db_lock, db_tx, s_rowcount, s_res, expect, last_mut,
                   rvars, lvars, tvars, gvars, dvars, xvars>>

LockIgnored == TRUE

\* threading.Lock: acquire blocks while another thread holds it
LockAcquirable == db_lock = 0

\* with self._lock:
StoreAcquire(th) ==
    /\ s_pc[th] = "lock"
    /\ LockAcquirable
    /\ db_lock' = th
    /\ s_pc' = [s_pc EXCEPT ![th] = "connect"]
    /\ UNCHANGED <<db_rows, db_tx, s_op, s_rowcount, s_res, expect, last_mut, n_ops,
                   rvars, lvars, tvars, gvars, dvars, xvars>>

\* the operation returns res: the with block is left and the lock released
Finish(th, res) ==
    /\ s_res' = [s_res EXCEPT ![th] = res]
    /\ s_pc' = [s_pc EXCEPT ![th] = "idle"]
    /\ db_lock' = 0

\* conn = self._get_conn(); sqlite3.connect may raise
StoreConnect(th) ==
    /\ s_pc[th] = "connect"
    /\ \E fault \in BOOLEAN :
         IF fault
         THEN /\ Finish(th, FaultResult(th))
              /\ UNCHANGED db_tx
         ELSE /\ s_pc' = [s_pc EXCEPT ![th] = "execute"]
              /\ db_tx' = [db_tx EXCEPT ![th] = db_rows]
              /\ UNCHANGED <<db_lock, s_res>>
    /\ UNCHANGED <<db_rows, s_op, s_rowcount, expect, last_mut, n_ops, rvars, lvars, tvars, gvars, dvars, xvars>>

\* conn.execute(...): get and list_all return what they fetched, set and delete have
\* their statement staged; the statement may raise
StoreExecute(th) ==
    /\ s_pc[th] = "execute"
    /\ LET o == s_op[th] IN
       \E fault \in BOOLEAN :
         IF fault
         THEN /\ Finish(th, FaultResult(th))
              /\ UNCHANGED <<db_tx, s_rowcount>>
         ELSE CASE o.op = "get" ->
                     /\ Finish(th, Result(th, FALSE, FetchOne(db_rows, o.tag), FALSE,
                                          ListAll({})))
                     /\ UNCHANGED <<db_tx, s_rowcount>>
                [] o.op = "list" ->
                     /\ Finish(th, Result(th, FALSE, NoMapping, FALSE, ListAll(db_rows)))
                     /\ UNCHANGED <<db_tx, s_rowcount>>
                [] o.op = "set" ->
                     /\ db_tx' = [db_tx EXCEPT ![th] =
                                     InsertOrReplace(@, o.tag, o.uri, o.description)]
                     /\ s_pc' = [s_pc EXCEPT ![th] = "commit"]
                     /\ UNCHANGED <<db_lock, s_res, s_rowcount>>
                [] o.op = "delete" ->
                     /\ db_tx' = [db_tx EXCEPT ![th] = DeleteFrom(@, o.tag)]
                     /\ s_rowcount' = [s_rowcount EXCEPT ![th] = RowCount(db_tx[th], o.tag)]
                     /\ s_pc' = [s_pc EXCEPT ![th] = "commit"]
                     /\ UNCHANGED <<db_lock, s_res>>
    /\ UNCHANGED <<db_rows, s_op, expect, last_mut, n_ops, rvars, lvars, tvars, gvars, dvars, xvars>>

\* conn.commit(), which may raise, then the return
StoreCommit(th) ==
    /\ s_pc[th] = "commit"
    /\ LET o == s_op[th] IN
       \E fault \in BOOLEAN :
         IF fault
         THEN /\ Finish(th, FaultResult(th))
              /\ db_rows' = Rollback(db_rows, db_tx[th])
              /\ UNCHANGED <<expect, last_mut>>
         ELSE /\ Finish(th, Result(th, FALSE, NoMapping, s_rowcount[th] > 0, ListAll({})))
              /\ db_rows' = db_tx[th]
              /\ expect' = [expect EXCEPT ![o.tag] =
                               IF o.op = "set"
                               THEN [found |-> TRUE, uri |-> o.uri,
                                     description |-> o.description]
                               ELSE NoMapping]
              /\ last_mut' = [last_mut EXCEPT ![o.tag] = o.op]
    /\ UNCHANGED <<db_tx, s_op, s_rowcount, n_ops, rvars, lvars, tvars, gvars, dvars, xvars>>

NextStore ==
    \E th \in StoreThreads :
        \/ StoreCall(th) \/ StoreAcquire(th) \/ StoreConnect(th)
        \/ StoreExecute(th) \/ StoreCommit(th)

(***************************************************************************)
(* The frontend's progress tracker (_run of _start_progress_updater),      *)
(* beside the playback engine it polls and the comet workers it starts.    *)
(***************************************************************************)
PlayStates == {"stopped", "playing", "paused"}
Positions == 0..MaxPos

\* 0: neither the backend nor the file probe gives a length
Lengths == {0, MaxPos}

\* the parameters LEDManager.__init__ takes
LedCtorParams == {"led_enabled", "led_pin", "led_count", "brightness", "button_pin"}

\* the methods class LEDManager defines
LedMethods ==
    {"show_ready", "flash_confirm", "set_button_led", "shutdown", "welcome_scan",
     "farewell_scan", "remaining_progress", "start_standby_comet", "stop_standby_comet"}

\* calling method m on the manager raises AttributeError
CallRaises(m) == m \notin LedMethods

\* max(0.0, min(1.0, 1.0 - pos_ms / float(length_ms))), in percent
RemainRatio(pos, len) == Max(0, Min(100, 100 - ((100 * pos) \div len)))

KeepOld(cur, old) == old

\* pos_ms and length_ms are assigned from the engine's answers before each use
Fetched(cur, old) == cur

\* no fetch made in this tick's state-change branch
NoFetch == [pos |-> -1, len |-> -1, on |-> FALSE]

\* the fields of the LED manager the tracker's calls work on
LedNow ==
    [running |-> standby_running, stop |-> standby_stop, ev |-> ev_set, pc |-> w_pc,
     idx |-> w_idx, frames |-> w_frames, stopper |-> w_stopper, acked |-> w_acked,
     px |-> pixels, last |-> last_remain_count, shown |-> rp_shown,
     wrote |-> FALSE, called |-> FALSE]

\* stop_standby_comet from its first line to its return
StopCometOn(l) ==
    LET s == l.stop IN
    [l EXCEPT !.ev = IF s # 0 THEN [@ EXCEPT ![s] = TRUE] ELSE @,
              !.running = IF s # 0 THEN FALSE ELSE @,
              !.acked = IF s # 0 /\ l.pc[s] # "dead" THEN [@ EXCEPT ![s] = TRUE] ELSE @,
              !.px = OffFrame(@),
              !.wrote = TRUE,
              !.called = TRUE]

\* the slot of the thread start_standby_comet creates
FreeSlot(l) ==
    CHOOSE w \in Comets : l.pc[w] = "dead" /\ \A x \in Comets : x < w => l.pc[x] # "dead"

\* start_standby_comet from its first line to its return
StartCometOn(l) ==
    IF l.running THEN [l EXCEPT !.called = TRUE]
    ELSE LET w == FreeSlot(l) IN
         [l EXCEPT !.stop = w,
                   !.ev = [@ EXCEPT ![w] = FALSE],
                   !.pc = [@ EXCEPT ![w] = "check"],
                   !.idx = [@ EXCEPT ![w] = 0],
                   !.frames = [@ EXCEPT ![w] = 0],
                   !.stopper = [@ EXCEPT ![w] = 0],
                   !.acked = [@ EXCEPT ![w] = FALSE],
                   !.running = TRUE,
                   !.called = TRUE]

\* remaining_progress(pct / 100) from its first line to its return
RemainingOn(l, pct) ==
    LET k == RemainLeds(pct) IN
    IF l.last = k THEN [l EXCEPT !.called = TRUE]
    ELSE [l EXCEPT !.last = k,
                   !.px = RemainFrame(@, k),
                   !.shown = Append(@, k),
                   !.wrote = TRUE,
                   !.called = TRUE]

\* the cached count left in place
ClearCacheOnKept(l) == l

\* delattr(self._led, '_last_remain_count') when the attribute is there
ClearCacheOn(l) == [l EXCEPT !.last = -1]

\* the LED manager after the tracker's calls of one step
SetLed(l) ==
    /\ standby_running' = l.running
    /\ standby_stop' = l.stop
    /\ ev_set' = l.ev
    /\ w_pc' = l.pc
    /\ w_idx' = l.idx
    /\ w_frames' = l.frames
    /\ w_stopper' = l.stopper
    /\ w_acked' = l.acked
    /\ pixels' = l.px
    /\ last_remain_count' = l.last
    /\ rp_shown' = l.shown
    /\ f_foreign' = [f \in Flashes |-> f_foreign[f] \/ (l.wrote /\ Flashing(f))]
    /\ prev_start' = IF l.called THEN "other" ELSE prev_start
    /\ sd_state' = IF l.called /\ sd_state \in {"running", "returned"}
                   THEN "reused" ELSE sd_state
    /\ UNCHANGED <<led_lock, f_pc, f_saved, f_result, c_pc, c_arg, c_i, n_calls,
                   ghost_write, second_created>>

InitTracker ==
    /\ fe_led = "none"
    /\ hw_pc = "pending"
    /\ remaining_on = TRUE
    /\ progress_stop = FALSE
    /\ eng_state = "stopped"
    /\ eng_pos = 0
    /\ eng_len = 0
    /\ t_pc = "observe"
    /\ t_state = "None"
    /\ last_state = "None"
    /\ t_pos = 0
    /\ t_len = 0
    /\ t_from = "None"
    /\ t_seen = NoFetch
    /\ t_calls = <<>>
    /\ sweep_running = FALSE
    /\ n_ticks = 0

enginevars == <<eng_state, eng_pos, eng_len>>
ticklocals == <<t_state, last_state, t_pos, t_len, t_from, t_seen, t_calls>>

\* lines 113-140: the hw-init thread builds the LED manager; the constructor call
\* passes idle_brightness, and a keyword the constructor does not take raises
InitHardware ==
    /\ hw_pc = "pending"
    /\ hw_pc' = "done"
    /\ fe_led' = IF "idle_brightness" \in LedCtorParams THEN "manager" ELSE "none"
    /\ UNCHANGED <<remaining_on, progress_stop, enginevars, t_pc, ticklocals,
                   sweep_running, n_ticks, rvars, lvars, svars, gvars, dvars, xvars>>

\* an LEDManager with its ring enabled is assigned to self._led
AssignLed ==
    /\ hw_pc = "done"
    /\ fe_led = "none"
    /\ fe_led' = "manager"
    /\ UNCHANGED <<hw_pc, remaining_on, progress_stop, enginevars, t_pc, ticklocals,
                   sweep_running, n_ticks, rvars, lvars, svars, gvars, dvars, xvars>>

\* LedConfig.set("remaining", value)
SetToggle ==
    /\ remaining_on' = ~remaining_on
    /\ UNCHANGED <<fe_led, hw_pc, progress_stop, enginevars, t_pc, ticklocals,
                   sweep_running, n_ticks, rvars, lvars, svars, gvars, dvars, xvars>>

\* the playback engine changes its state, its position or its track
EngineChange ==
    /\ \E s \in PlayStates : \E p \in Positions : \E n \in Lengths :
         /\ <<s, p, n>> # <<eng_state, eng_pos, eng_len>>
         /\ eng_state' = s
         /\ eng_pos' = p
         /\ eng_len' = n
    /\ UNCHANGED <<fe_led, hw_pc, remaining_on, progress_stop, t_pc, ticklocals,
                   sweep_running, n_ticks, rvars, lvars, svars, gvars, dvars, xvars>>

\* _stop_progress_updater
StopProgressUpdater ==
    /\ ~progress_stop
    /\ progress_stop' = TRUE
    /\ UNCHANGED <<fe_led, hw_pc, remaining_on, enginevars, t_pc, ticklocals,
                   sweep_running, n_ticks, rvars, lvars, svars, gvars, dvars, xvars>>

\* line 210: the loop ends once the stop event is set
TickExit ==
    /\ t_pc = "observe"
    /\ progress_stop
    /\ t_pc' = "done"
    /\ UNCHANGED <<fe_led, hw_pc, remaining_on, progress_stop, enginevars, ticklocals,
                   sweep_running, n_ticks, rvars, lvars, svars, gvars, dvars, xvars>>

\* lines 214-224: without a manager the tick is over; with one, the state is read and
\* the comet stopped when the engine is not stopped
TickObserve ==
    /\ t_pc = "observe"
    /\ ~progress_stop
    /\ n_ticks < MaxTicks
    /\ n_ticks' = n_ticks + 1
    /\ IF fe_led = "none"
       THEN /\ t_pc' = "sleep"
            /\ UNCHANGED <<ticklocals, lvars>>
       ELSE /\ t_state' = eng_state
            /\ t_from' = last_state
            /\ t_seen' = NoFetch
            /\ t_calls' = <<>>
            /\ t_pc' = IF eng_state # last_state THEN "change" ELSE "track"
            /\ SetLed(IF eng_state \in {"playing", "paused"}
                      THEN StopCometOn(LedNow) ELSE LedNow)
            /\ UNCHANGED <<last_state, t_pos, t_len>>
    /\ UNCHANGED <<fe_led, hw_pc, remaining_on, progress_stop, enginevars, sweep_running,
                   rvars, svars, gvars, dvars, xvars>>

\* the step draws a frame of remaining_progress, which takes the lock
DrawsRemaining == t_state = "playing" /\ remaining_on /\ eng_len > 0

\* lines 227-316: the branch of a changed state
TickChange ==
    /\ t_pc = "change"
    /\ DrawsRemaining => led_lock = Free
    /\ t_state = "stopped" /\ ~standby_running => \E w \in Comets : w_pc[w] = "dead"
    /\ LET pos == Fetched(eng_pos, t_pos)
           len == Fetched(eng_len, t_len)
           fetch == t_state \in {"playing", "paused"} /\ remaining_on
           stopped == StopCometOn(LedNow)
       IN /\ t_seen' = [pos |-> eng_pos, len |-> eng_len, on |-> remaining_on]
          /\ t_pos' = IF fetch THEN pos ELSE t_pos
          /\ t_len' = IF fetch THEN len ELSE t_len
          /\ CASE t_state = "playing" ->
                    \* stop_paused_sweep raises and is caught at line 242
                    IF fetch /\ len > 0
                    THEN /\ SetLed(RemainingOn(stopped, RemainRatio(pos, len)))
                         /\ t_calls' = Append(t_calls, RemainRatio(pos, len))
                         /\ UNCHANGED sweep_running
                    ELSE /\ SetLed(stopped)
                         /\ UNCHANGED <<t_calls, sweep_running>>
               [] t_state = "paused" ->
                    /\ SetLed(stopped)
                    /\ sweep_running' =
                          (sweep_running
                             \/ (fetch /\ len > 0 /\ ~CallRaises("start_paused_sweep")))
                    /\ UNCHANGED t_calls
               [] OTHER ->
                    /\ SetLed(StartCometOn(LedNow))
                    /\ sweep_running' =
                          (sweep_running /\ CallRaises("stop_paused_sweep"))
                    /\ UNCHANGED t_calls
    /\ last_state' = t_state
    /\ t_pc' = "track"
    /\ UNCHANGED <<fe_led, hw_pc, remaining_on, progress_stop, enginevars, t_state, t_from,
                   n_ticks, rvars, svars, gvars, dvars, xvars>>

\* lines 319-361: the remaining time tracked while playing or paused, the cached
\* count dropped otherwise
TickTrack ==
    /\ t_pc = "track"
    /\ DrawsRemaining => led_lock = Free
    /\ LET pos == Fetched(eng_pos, t_pos)
           len == Fetched(eng_len, t_len)
           fetch == t_state \in {"playing", "paused"} /\ remaining_on
       IN /\ t_pos' = IF fetch THEN pos ELSE t_pos
          /\ t_len' = IF fetch THEN len ELSE t_len
          /\ IF fetch
             THEN IF len > 0 /\ t_state = "playing"
                  THEN /\ SetLed(RemainingOn(LedNow, RemainRatio(pos, len)))
                       /\ t_calls' = Append(t_calls, RemainRatio(pos, len))
                       /\ UNCHANGED sweep_running
                  ELSE \* paused: start_paused_sweep raises and is passed over at line 352,
                       \* update_paused_remain raises and is caught at line 355
                       /\ sweep_running' =
                             (sweep_running
                                \/ (len > 0 /\ ~CallRaises("start_paused_sweep")))
                       /\ UNCHANGED <<t_calls, lvars>>
             ELSE /\ SetLed(ClearCacheOn(LedNow))
                  /\ UNCHANGED <<t_calls, sweep_running>>
    /\ t_pc' = "sleep"
    /\ UNCHANGED <<fe_led, hw_pc, remaining_on, progress_stop, enginevars, t_state,
                   last_state, t_from, t_seen, n_ticks, rvars, svars, gvars, dvars, xvars>>

\* line 362: time.sleep(0.2)
TickSleep ==
    /\ t_pc = "sleep"
    /\ t_pc' = "observe"
    /\ UNCHANGED <<fe_led, hw_pc, remaining_on, progress_stop, enginevars, ticklocals,
                   sweep_running, n_ticks, rvars, lvars, svars, gvars, dvars, xvars>>

NextTracker ==
    \/ InitHardware \/ AssignLed \/ SetToggle \/ EngineChange \/ StopProgressUpdater
    \/ TickExit \/ TickObserve \/ TickChange \/ TickTrack \/ TickSleep
    \/ CometCheck \/ CometDraw \/ CometShow \/ CometWait

(***************************************************************************)
(* The frontend's tag handler (_on_tag_detected and the flow it runs,      *)
(* _play_detect_then_execute), beside the engine it commands, the mappings *)
(* it looks up and the broadcast threads it starts.  core is the proxy the *)
(* host hands to the constructor, and its calls answer.                    *)
(***************************************************************************)
AlbumUris == {"spotify:album:1"}
PlaylistUris == {"spotify:playlist:1"}

\* what a mapping's uri can hold
MappedUris == {"a", "TOGGLE_PLAY", "STOP"} \cup AlbumUris \cup PlaylistUris

\* the settings of SoundsConfig's "detected": "" is none
Sounds == {"", "snd"}

\* what core.library.lookup finds for an album or a playlist
LookupResults == {<<>>, <<"k1">>, <<"k1", "k2">>}

Cmd(o, u) == [op |-> o, uri |-> u]

\* truth of mapped_uri: None and "" are false
Mapped(u) == u # NoUri /\ u # ""

\* mapped_uri.startswith('spotify:album:') or ':album:' in mapped_uri
IsAlbum(u) == u \in AlbumUris

\* mapped_uri.startswith('spotify:playlist:') or ':playlist:' in mapped_uri
IsPlaylist(u) == u \in PlaylistUris

\* the action _broadcast names in its event
ActionOf(u) ==
    IF ~Mapped(u) THEN "none"
    ELSE IF u = "TOGGLE_PLAY" THEN "toggle"
    ELSE IF u = "STOP" THEN "stop"
    ELSE "play"

TagEvent(n, t, u) ==
    [n |-> n, event |-> "tag_scanned", tag_id |-> t,
     uri |-> IF Mapped(u) THEN u ELSE "", action |-> ActionOf(u)]

\* _execute_mapping, lines 578-583: the call its TOGGLE_PLAY makes
ExecuteMappingToggle(state) == IF state = "playing" THEN "pause" ELSE "play"

\* lines 525-534: the call TOGGLE_PLAY makes for the state it read
ToggleCommand(state) ==
    IF state = "playing" THEN "pause"
    ELSE IF state = "paused" THEN "resume"
    ELSE "play"

AddEach(tracks) == [i \in 1..Len(tracks) |-> Cmd("add", tracks[i])]

ContentTwice(u, tracks) == <<Cmd("add", u), Cmd("add", u)>>

\* lines 548-567: the adds of the mapped content
Content(u, tracks) ==
    IF (IsAlbum(u) \/ IsPlaylist(u)) /\ tracks # <<>>
    THEN AddEach(tracks)
    ELSE <<Cmd("add", u)>>

StopAndPlay(log) == log \o <<Cmd("stop", ""), Cmd("play", "")>>

\* lines 539-541: STOP after the clear
StopOnly(log) == Append(log, Cmd("stop", ""))

ConfirmUnmapped(u, det) == ~Mapped(u)

\* line 649-651: the confirmation sound plays when no mapping exists and one is set
ConfirmPlays(u, det) == ~Mapped(u) /\ det # ""

InitTag ==
    /\ sounds_detected = ""
    /\ h_pc = "idle"
    /\ h_tag = "none"
    /\ h_uri = NoUri
    /\ h_state = "none"
    /\ cmd_log = <<>>
    /\ bc_pending = {}
    /\ events = <<>>
    /\ n_tags = 0

\* SoundsConfig.__init__ and _load, in the frontend's constructor
LoadSounds ==
    /\ sounds_detected = ""
    /\ n_tags = 0
    /\ h_pc = "idle"
    /\ \E s \in Sounds \ {""} : sounds_detected' = s
    /\ UNCHANGED <<h_pc, h_tag, h_uri, h_state, cmd_log, bc_pending, events, n_tags,
                   rvars, lvars, svars, tvars, dvars, xvars>>

\* the engine goes from one playback state to another
EngineStateChange ==
    /\ \E s \in PlayStates : s # eng_state /\ eng_state' = s
    /\ UNCHANGED <<fe_led, hw_pc, remaining_on, progress_stop, eng_pos, eng_len, t_pc,
                   ticklocals, sweep_running, n_ticks, rvars, lvars, svars, gvars, dvars, xvars>>

\* set_mapping, run from its call to its return with no store call beside it and
\* between two detections (a detection reads the table once, on entry)
SetMapping ==
    /\ db_lock = 0
    /\ h_pc = "idle"
    /\ \E t \in Tags : \E u \in MappedUris :
         /\ db_rows' = InsertOrReplace(db_rows, t, u, "")
         /\ db_rows' # db_rows
         /\ expect' = [expect EXCEPT ![t] = [found |-> TRUE, uri |-> u, description |-> ""]]
         /\ last_mut' = [last_mut EXCEPT ![t] = "set"]
    /\ UNCHANGED <<db_lock, db_tx, s_pc, s_op, s_rowcount, s_res, n_ops,
                   rvars, lvars, tvars, gvars, dvars, xvars>>

\* lines 624-628: the reader's worker calls the handler, which looks the tag up
TagDetected ==
    /\ h_pc = "idle"
    /\ n_tags < MaxTags
    /\ db_lock = 0
    /\ \E t \in Tags :
         /\ h_tag' = t
         /\ h_uri' = GetMapping(FetchOne(db_rows, t), t)
    /\ cmd_log' = <<>>
    /\ h_state' = "none"
    /\ n_tags' = n_tags + 1
    /\ h_pc' = "sound"
    /\ UNCHANGED <<sounds_detected, bc_pending, events, rvars, lvars, svars, tvars, dvars, xvars>>

\* lines 647-657
TagSound ==
    /\ h_pc = "sound"
    /\ cmd_log' = IF ConfirmPlays(h_uri, sounds_detected)
                  THEN <<Cmd("clear", ""), Cmd("add", sounds_detected), Cmd("play", "")>>
                  ELSE cmd_log
    /\ h_pc' = "broadcast"
    /\ UNCHANGED <<sounds_detected, h_tag, h_uri, h_state, bc_pending, events, n_tags,
                   rvars, lvars, svars, tvars, dvars, xvars>>

\* lines 659-689: the broadcast thread is started, and the handler returns when
\* the tag has no mapping
TagBroadcast ==
    /\ h_pc = "broadcast"
    /\ bc_pending' = bc_pending \cup {TagEvent(n_tags, h_tag, h_uri)}
    /\ h_pc' = IF Mapped(h_uri) THEN "execute" ELSE "idle"
    /\ UNCHANGED <<sounds_detected, h_tag, h_uri, h_state, cmd_log, events, n_tags,
                   rvars, lvars, svars, tvars, dvars, xvars>>

\* lines 521-524 and 537: TOGGLE_PLAY reads the state, anything else clears
TagExecute ==
    /\ h_pc = "execute"
    /\ IF h_uri = "TOGGLE_PLAY"
       THEN /\ h_state' = eng_state
            /\ h_pc' = "toggle"
            /\ UNCHANGED cmd_log
       ELSE /\ cmd_log' = Append(cmd_log, Cmd("clear", ""))
            /\ h_pc' = "cleared"
            /\ UNCHANGED h_state
    /\ UNCHANGED <<sounds_detected, h_tag, h_uri, bc_pending, events, n_tags,
                   rvars, lvars, svars, tvars, dvars, xvars>>

\* lines 525-535
TagToggle ==
    /\ h_pc = "toggle"
    /\ cmd_log' = Append(cmd_log, Cmd(ToggleCommand(h_state), ""))
    /\ h_pc' = "idle"
    /\ UNCHANGED <<sounds_detected, h_tag, h_uri, h_state, bc_pending, events, n_tags,
                   rvars, lvars, svars, tvars, dvars, xvars>>

\* lines 538-546
TagCleared ==
    /\ h_pc = "cleared"
    /\ IF h_uri = "STOP"
       THEN /\ cmd_log' = StopOnly(cmd_log)
            /\ h_pc' = "idle"
       ELSE /\ cmd_log' = IF sounds_detected # ""
                          THEN Append(cmd_log, Cmd("add", sounds_detected))
                          ELSE cmd_log
            /\ h_pc' = "content"
    /\ UNCHANGED <<sounds_detected, h_tag, h_uri, h_state, bc_pending, events, n_tags,
                   rvars, lvars, svars, tvars, dvars, xvars>>

\* lines 547-567
TagContent ==
    /\ h_pc = "content"
    /\ \E tracks \in LookupResults : cmd_log' = cmd_log \o Content(h_uri, tracks)
    /\ h_pc' = "play"
    /\ UNCHANGED <<sounds_detected, h_tag, h_uri, h_state, bc_pending, events, n_tags,
                   rvars, lvars, svars, tvars, dvars, xvars>>

\* lines 568-569
TagPlay ==
    /\ h_pc = "play"
    /\ cmd_log' = Append(cmd_log, Cmd("play", ""))
    /\ h_pc' = "idle"
    /\ UNCHANGED <<sounds_detected, h_tag, h_uri, h_state, bc_pending, events, n_tags,
                   rvars, lvars, svars, tvars, dvars, xvars>>

\* a _broadcast thread runs: lines 660-681
BroadcastRun ==
    /\ \E e \in bc_pending :
         /\ events' = Append(events, e)
         /\ bc_pending' = bc_pending \ {e}
    /\ UNCHANGED <<sounds_detected, h_pc, h_tag, h_uri, h_state, cmd_log, n_tags,
                   rvars, lvars, svars, tvars, dvars, xvars>>

NextTag ==
    \/ LoadSounds \/ SetMapping \/ EngineStateChange
    \/ TagDetected \/ TagSound \/ TagBroadcast \/ TagExecute \/ TagToggle
    \/ TagCleared \/ TagContent \/ TagPlay \/ BroadcastRun

(***************************************************************************)
(* An LEDManager whose ring is disabled or absent at construction          *)
(* (led_enabled false, rpi_ws281x missing, or PixelStrip failing), and the *)
(* entry tests of its methods.  The manager whose ring is there is the     *)
(* LED manager modelled above.                                             *)
(***************************************************************************)
LedOps == {"show_ready", "flash_confirm", "welcome_scan", "farewell_scan",
           "remaining_progress", "start_standby_comet", "stop_standby_comet",
           "shutdown"}

\* led_enabled, PixelStrip is not None, PixelStrip(...) and begin() succeed
CtorArgs == [led_enabled : BOOLEAN, lib : BOOLEAN, begin_ok : BOOLEAN]

\* lines 39 and 58-69: self._enabled when __init__ returns
CtorEnabled(a) == a.led_enabled /\ a.lib /\ a.begin_ok

\* lines 45 and 65-69: self._strip when __init__ returns
CtorStrip(a) == IF CtorEnabled(a) THEN "strip" ELSE "none"

Unbuilt ==
    [built |-> FALSE, args |-> [led_enabled |-> FALSE, lib |-> FALSE, begin_ok |-> FALSE],
     enabled |-> FALSE, strip |-> "none", running |-> FALSE, stop |-> "none", last |-> -1]

\* _get_strip: self._strip, there being no attribute strip; None is false
GetStrip(m) == m.strip # "none"

ProceedsOnFlagAlone(op, m, leds) ==
    CASE op \in {"show_ready", "flash_confirm", "shutdown"} -> ~m.enabled
      [] op \in {"welcome_scan", "farewell_scan", "stop_standby_comet"} -> TRUE
      [] op = "remaining_progress" -> m.last # leds
      [] op = "start_standby_comet" -> ~m.running

\* lines 73, 88, 125, 183-185, 201-203, 229-235, 269-276, 326-328: the method goes
\* on to the strip
Proceeds(op, m, leds) ==
    CASE op \in {"show_ready", "flash_confirm", "shutdown"} -> m.enabled /\ m.strip # "none"
      [] op \in {"welcome_scan", "farewell_scan", "stop_standby_comet"} -> GetStrip(m)
      [] op = "remaining_progress" -> m.last # leds /\ GetStrip(m)
      [] op = "start_standby_comet" -> GetStrip(m) /\ ~m.running

\* lines 106-107 and 313-314: the methods that start a thread
StartsWorker(op) == op \in {"flash_confirm", "start_standby_comet"}

\* what a call did: a method that goes on with no strip calls a method of None
Did(op, m, leds) ==
    LET go == Proceeds(op, m, leds) IN
    [op |-> op,
     wrote |-> go /\ m.strip # "none",
     worker |-> go /\ StartsWorker(op) /\ m.strip # "none",
     raised |-> go /\ m.strip = "none"]

\* the fields a call leaves: lines 244, 277-278, 318-320
After(op, m, leds) ==
    CASE op = "remaining_progress" /\ Proceeds(op, m, leds) -> [m EXCEPT !.last = leds]
      [] op = "start_standby_comet" /\ Proceeds(op, m, leds) ->
             [m EXCEPT !.stop = "event", !.running = TRUE]
      [] op = "stop_standby_comet" /\ m.stop # "none" ->
             [m EXCEPT !.stop = "set", !.running = FALSE]
      [] OTHER -> m

InitOff ==
    /\ off_mgr = Unbuilt
    /\ off_log = <<>>

\* LEDManager(...) with the ring disabled or absent
ConstructOff ==
    /\ ~off_mgr.built
    /\ \E a \in CtorArgs :
         /\ ~(a.led_enabled /\ a.lib /\ a.begin_ok)
         /\ off_mgr' = [Unbuilt EXCEPT !.built = TRUE, !.args = a,
                                       !.enabled = CtorEnabled(a), !.strip = CtorStrip(a)]
    /\ UNCHANGED <<off_log, rvars, lvars, svars, tvars, gvars, xvars>>

\* one call of a method on that manager, from its entry to its return
OffCall ==
    /\ off_mgr.built
    /\ Len(off_log) < MaxOffCalls
    /\ \E op \in LedOps : \E pct \in Ratios :
         /\ op # "remaining_progress" => pct = 50
         /\ off_log' = Append(off_log, Did(op, off_mgr, RemainLeds(pct)))
         /\ off_mgr' = After(op, off_mgr, RemainLeds(pct))
    /\ UNCHANGED <<rvars, lvars, svars, tvars, gvars, xvars>>

NextOff == ConstructOff \/ OffCall

(***************************************************************************)
(* LEDManager when a hardware write of the ring, setPixelColor or show,    *)
(* raises.  The steps below stand beside those of the methods and workers  *)
(* above: each is the step of the same name ending in an exception.        *)
(***************************************************************************)
InitFault ==
    /\ propagated = {}
    /\ n_faults = 0

\* one more hardware write raises
Fault == n_faults < MaxFaults /\ n_faults' = n_faults + 1

\* the methods that begin by taking the lock and writing a frame
DrawingOps == {"show_ready", "shutdown", "welcome_scan", "farewell_scan"}

\* the first frame such a method writes
FirstFrame(op, buf) ==
    CASE op = "show_ready" -> Solid(ReadyColor)
      [] op = "shutdown" -> Solid(Off)
      [] op = "welcome_scan" -> OffFrame(buf)
      [] op = "farewell_scan" -> FillFrame(buf, ScanColor)

\* the positions of a caller at which the next thing it does is a hardware write,
\* the method it is in there and whether the write is a setPixelColor or a show
WritePositions ==
    [ sr_show      |-> <<"show_ready", "show">>,
      sd_show      |-> <<"shutdown", "show">>,
      ws_off_show  |-> <<"welcome_scan", "show">>,
      ws_frame     |-> <<"welcome_scan", "set">>,
      ws_show      |-> <<"welcome_scan", "show">>,
      fs_fill_show |-> <<"farewell_scan", "show">>,
      fs_frame     |-> <<"farewell_scan", "set">>,
      fs_show      |-> <<"farewell_scan", "show">>,
      fs_off       |-> <<"farewell_scan", "set">>,
      fs_off_show  |-> <<"farewell_scan", "show">>,
      rp_acq       |-> <<"remaining_progress", "set">>,
      rp_show      |-> <<"remaining_progress", "show">>,
      sp_show      |-> <<"stop_standby_comet", "show">> ]

\* the frame a caller at a position of a setPixelColor loop is about to write
FrameAt(pos, buf, i, k) ==
    CASE pos = "ws_frame" -> WelcomeFrame(buf, i)
      [] pos = "fs_frame" -> FarewellFrame(buf, i)
      [] pos = "fs_off" -> OffFrame(buf)
      [] pos = "rp_acq" -> RemainFrame(buf, k)

\* whether an exception of a hardware write inside method op reaches the caller:
\* show_ready has only its show() inside a try (lines 76-84); shutdown (122-139),
\* the scans (187-197, 205-216), remaining_progress (244-257) and
\* stop_standby_comet (326-335) have every write inside one
Propagates(op, point) == op = "show_ready" /\ point = "set"

\* the lock left held by the thread the exception ended
LockAfterErrorHeld == led_lock

\* the lock when an exception leaves a `with self._lock` block
LockAfterError == Free

\* the buffer when a loop writing frame raised at pixel k: written up to there
Partial(buf, frame, k) == [i \in Pix |-> IF i < k THEN frame[i] ELSE buf[i]]

\* thread t writes the first k pixels of frame
DrawPartial(t, frame, k) ==
    IF k = 0 THEN UNCHANGED bufvars ELSE Draw(t, Partial(pixels, frame, k))

\* a method takes the lock and its first loop of setPixelColor raises at pixel k
CallBeginFails ==
    \E c \in Callers : \E op \in DrawingOps : \E k \in Pix :
      /\ Fault
      /\ c_pc[c] = "idle"
      /\ n_calls < MaxCalls
      /\ n_calls' = n_calls + 1
      /\ led_lock = Free
      /\ led_lock' = LockAfterError
      /\ DrawPartial(Caller(c), FirstFrame(op, pixels), k)
      /\ propagated' = IF Propagates(op, "set") THEN propagated \cup {op} ELSE propagated
      /\ sd_state' = IF op = "shutdown"
                     THEN (IF \A d \in Callers : c_pc[d] = "idle" THEN "returned" ELSE "reused")
                     ELSE IF sd_state \in {"running", "returned"} THEN "reused" ELSE sd_state
      /\ prev_start' = "other"
      /\ UNCHANGED <<last_remain_count, cometvars, flashvars, c_pc, c_arg, c_i, rp_shown,
                     ghost_write, second_created, rvars, svars, tvars, gvars, dvars>>

\* a hardware write raises in a method that is under way: the method returns, to an
\* exception or not, and a lock it held is released
CallInsideFails ==
    \E c \in Callers : \E k \in Pix :
      /\ Fault
      /\ c_pc[c] \in DOMAIN WritePositions
      /\ LET pos == c_pc[c]
             op == WritePositions[pos][1]
             point == WritePositions[pos][2]
         IN /\ pos = "rp_acq" => (led_lock = Free /\ ~RecheckSame(c_arg[c]))
            /\ IF point = "set"
               THEN DrawPartial(Caller(c), FrameAt(pos, pixels, c_i[c], c_arg[c]), k)
               ELSE k = 0 /\ UNCHANGED bufvars
            /\ last_remain_count' = IF pos = "rp_acq" THEN c_arg[c] ELSE last_remain_count
            /\ led_lock' = IF led_lock = Caller(c) \/ pos = "rp_acq" THEN LockAfterError
                           ELSE led_lock
            /\ propagated' = IF Propagates(op, point) THEN propagated \cup {op}
                             ELSE propagated
            /\ sd_state' = IF pos = "sd_show" /\ sd_state = "running" THEN "returned"
                           ELSE sd_state
      /\ c_pc' = [c_pc EXCEPT ![c] = "idle"]
      /\ c_i' = [c_i EXCEPT ![c] = 0]
      /\ w_acked' = [w \in Comets |-> w_acked[w] \/ w_stopper[w] = c]
      /\ w_stopper' = [w \in Comets |-> IF w_stopper[w] = c THEN 0 ELSE w_stopper[w]]
      /\ UNCHANGED <<standby_running, standby_stop, ev_set, w_pc, w_idx, w_frames,
                     flashvars, c_arg, n_calls, rp_shown, ghost_write, startvars, rvars,
                     svars, tvars, gvars, dvars>>

\* where an exception inside the comet's frame takes the worker: lines 307-308, the
\* sleep of 0.5 s and then the test of the loop again
CometAfterError == "wait"

\* lines 286-308: a write of the comet's frame raises, in the loops of setPixelColor
\* at pixel k or in show(); idx is not advanced
CometFails ==
    \E w \in Comets : \E k \in Pix :
      /\ Fault
      /\ w_pc[w] \in {"acq", "show"}
      /\ IF w_pc[w] = "acq"
         THEN /\ led_lock = Free
              /\ DrawPartial(Comet(w), CometFrame(pixels, w_idx[w]), k)
              /\ ghost_write' = (ghost_write \/ (k > 0 /\ w_acked[w]))
              /\ sd_state' = IF k > 0 THEN LateAfterShutdown ELSE sd_state
         ELSE /\ k = 0
              /\ UNCHANGED <<bufvars, ghost_write, sd_state>>
      /\ led_lock' = LockAfterError
      /\ w_pc' = [w_pc EXCEPT ![w] = CometAfterError]
      /\ UNCHANGED <<last_remain_count, standby_running, standby_stop, ev_set, w_idx,
                     w_frames, w_stopper, w_acked, flashvars, c_pc, c_arg, c_i, n_calls,
                     rp_shown, startvars, propagated, rvars, svars, tvars, gvars, dvars>>

\* lines 93-106: a write of the flash raises; the worker logs it and ends
FlashFails ==
    \E f \in Flashes : \E k \in Pix :
      /\ Fault
      /\ f_pc[f] \in {"start", "fill", "hold", "restore"}
      /\ f_pc[f] = "start" => led_lock = Free
      /\ CASE f_pc[f] = "start" ->
                /\ DrawPartial(Flash(f), Solid(FlashColor), k)
                /\ sd_state' = IF k > 0 THEN LateAfterShutdown ELSE sd_state
             [] f_pc[f] = "hold" ->
                /\ DrawPartial(Flash(f), f_saved[f], k)
                /\ UNCHANGED sd_state
             [] OTHER -> k = 0 /\ UNCHANGED <<bufvars, sd_state>>
      /\ led_lock' = LockAfterError
      /\ f_pc' = [f_pc EXCEPT ![f] = "dead"]
      /\ f_result' = [f_result EXCEPT ![f] = "failed"]
      /\ UNCHANGED <<last_remain_count, cometvars, f_saved, c_pc, c_arg, c_i, n_calls,
                     rp_shown, ghost_write, startvars, propagated, rvars, svars, tvars,
                     gvars, dvars>>

(***************************************************************************)
(* Specifications.                                                         *)
(***************************************************************************)
Init ==
    InitReader /\ InitLed /\ InitStore /\ InitTracker /\ InitTag /\ InitOff /\ InitFault

\* the reader manager alone: its worker and its controlling thread
SpecReader == Init /\ [][NextReader]_vars

\* the same, every thread scheduled and every hardware call and callback returning
SpecReaderFair ==
    /\ SpecReader
    /\ WF_vars(WorkerStep) /\ WF_vars(CallReturns) /\ WF_vars(StopStep)

\* the reader manager with only the controlling thread inside stop() sure to go on:
\* the worker may stay in a hardware call for ever
SpecStopFair == SpecReader /\ WF_vars(StopStep)

\* the LED manager alone, beside a reader manager that is never started
InitLedOnly == Init /\ script = <<>> /\ reader = "handle" /\ has_noblock

\* its callers, its comet workers and its flash workers
SpecLed == InitLedOnly /\ [][NextLed]_vars

\* the mappings store alone, its threads calling it side by side
SpecStore == InitLedOnly /\ [][NextStore]_vars

\* the progress tracker, the engine it polls and the comet workers it starts
SpecTracker == InitLedOnly /\ [][NextTracker]_vars

\* the LED manager with its calls made one after the other: no call begins while
\* another is in progress; the workers run beside the calls as before
OneCallAtATime == Cardinality({c \in Callers : c_pc'[c] # "idle"}) <= 1

NextLedSerial ==
    \/ ShowReadyDraw /\ OneCallAtATime
    \/ ShowReadyShow /\ OneCallAtATime
    \/ ShutdownDraw /\ OneCallAtATime
    \/ ShutdownShow /\ OneCallAtATime
    \/ FlashConfirm /\ OneCallAtATime
    \/ WelcomeBegin /\ OneCallAtATime
    \/ WelcomeOffShow /\ OneCallAtATime
    \/ WelcomeFrameDraw /\ OneCallAtATime
    \/ WelcomeFrameShow /\ OneCallAtATime
    \/ FarewellBegin /\ OneCallAtATime
    \/ FarewellFillShow /\ OneCallAtATime
    \/ FarewellFrameDraw /\ OneCallAtATime
    \/ FarewellFrameShow /\ OneCallAtATime
    \/ FarewellOffDraw /\ OneCallAtATime
    \/ FarewellOffShow /\ OneCallAtATime
    \/ RemainingCall /\ OneCallAtATime
    \/ RemainingLocked /\ OneCallAtATime
    \/ RemainingShow /\ OneCallAtATime
    \/ StartCheck /\ OneCallAtATime
    \/ StartCreate /\ OneCallAtATime
    \/ StopBegin /\ OneCallAtATime
    \/ StopShow /\ OneCallAtATime
    \/ CometCheck /\ OneCallAtATime
    \/ CometDraw /\ OneCallAtATime
    \/ CometShow /\ OneCallAtATime
    \/ CometWait /\ OneCallAtATime
    \/ FlashFill /\ OneCallAtATime
    \/ FlashFillShow /\ OneCallAtATime
    \/ FlashRestore /\ OneCallAtATime
    \/ FlashRestoreShow /\ OneCallAtATime

SpecLedSerial == InitLedOnly /\ [][NextLedSerial]_vars

\* the same LED manager and calls, with hardware writes that may raise
NextFault ==
    \/ NextLedSerial
    \/ CallBeginFails /\ OneCallAtATime
    \/ CallInsideFails /\ OneCallAtATime
    \/ CometFails
    \/ FlashFails

SpecFault == InitLedOnly /\ [][NextFault]_vars

\* no start() or stop() has been called on the reader manager
ReaderAtRest == n_started = 0 /\ ctl_pc = "idle" /\ ~stop_event

\* no method of the LED manager has been called
LedAtRest == n_calls = 0 /\ n_faults = 0

\* no operation of the mappings store has been called
StoreAtRest == n_ops = 0

ReaderAlone == LedAtRest /\ StoreAtRest
LedAlone == ReaderAtRest /\ StoreAtRest /\ script = <<>> /\ reader = "handle" /\ has_noblock
StoreAlone == ReaderAtRest /\ LedAtRest /\ script = <<>> /\ reader = "handle" /\ has_noblock

\* the calls on the LED manager come from the first caller thread; the comet and
\* flash workers run beside it
OneCaller == \A c \in Callers \ {1} : c_pc'[c] = "idle"

\* the operation th begins is list_all or one on the first tag
OneTag(th) == s_op'[th].tag \in {"", "t1"}

\* the three lock owners, each run from the initial state while the other two are at
\* rest: RFIDManager._lock is taken by the reader's worker only, LEDManager._lock by
\* the LED manager's methods and workers only, MappingsDB._lock by the store's
\* operations only, and no code holding one of them calls into another owner
NextLocks ==
    \/ ReaderAlone /\ LoopCheck
    \/ ReaderAlone /\ InitCtor1
    \/ ReaderAlone /\ InitCtor2
    \/ ReaderAlone /\ NoReaderSleep
    \/ ReaderAlone /\ ReadCall
    \/ ReaderAlone /\ CallbackCall
    \/ ReaderAlone /\ Debounce
    \/ ReaderAlone /\ SleepPoll
    \/ ReaderAlone /\ Except
    \/ ReaderAlone /\ RecoverReset
    \/ ReaderAlone /\ RecoverDone
    \/ ReaderAlone /\ Backoff
    \/ ReaderAlone /\ ReadReturn
    \/ ReaderAlone /\ CallbackReturn
    \/ ReaderAlone /\ Start
    \/ ReaderAlone /\ StopCall
    \/ ReaderAlone /\ StopJoin
    \/ ReaderAlone /\ StopCleanup
    \/ LedAlone /\ ShowReadyDraw /\ OneCaller
    \/ LedAlone /\ ShowReadyShow /\ OneCaller
    \/ LedAlone /\ ShutdownDraw /\ OneCaller
    \/ LedAlone /\ ShutdownShow /\ OneCaller
    \/ LedAlone /\ FlashConfirm /\ OneCaller
    \/ LedAlone /\ WelcomeBegin /\ OneCaller
    \/ LedAlone /\ WelcomeOffShow /\ OneCaller
    \/ LedAlone /\ WelcomeFrameDraw /\ OneCaller
    \/ LedAlone /\ WelcomeFrameShow /\ OneCaller
    \/ LedAlone /\ FarewellBegin /\ OneCaller
    \/ LedAlone /\ FarewellFillShow /\ OneCaller
    \/ LedAlone /\ FarewellFrameDraw /\ OneCaller
    \/ LedAlone /\ FarewellFrameShow /\ OneCaller
    \/ LedAlone /\ FarewellOffDraw /\ OneCaller
    \/ LedAlone /\ FarewellOffShow /\ OneCaller
    \/ LedAlone /\ RemainingCall /\ OneCaller
    \/ LedAlone /\ RemainingLocked /\ OneCaller
    \/ LedAlone /\ RemainingShow /\ OneCaller
    \/ LedAlone /\ StartCheck /\ OneCaller
    \/ LedAlone /\ StartCreate /\ OneCaller
    \/ LedAlone /\ StopBegin /\ OneCaller
    \/ LedAlone /\ StopShow /\ OneCaller
    \/ LedAlone /\ CometCheck /\ OneCaller
    \/ LedAlone /\ CometDraw /\ OneCaller
    \/ LedAlone /\ CometShow /\ OneCaller
    \/ LedAlone /\ CometWait /\ OneCaller
    \/ LedAlone /\ FlashFill /\ OneCaller
    \/ LedAlone /\ FlashFillShow /\ OneCaller
    \/ LedAlone /\ FlashRestore /\ OneCaller
    \/ LedAlone /\ FlashRestoreShow /\ OneCaller
    \/ LedAlone /\ CallBeginFails /\ OneCaller
    \/ LedAlone /\ CallInsideFails /\ OneCaller
    \/ LedAlone /\ CometFails /\ OneCaller
    \/ LedAlone /\ FlashFails /\ OneCaller
    \/ \E th \in StoreThreads : StoreAlone /\ StoreCall(th) /\ OneTag(th)
    \/ \E th \in StoreThreads : StoreAlone /\ StoreAcquire(th)
    \/ \E th \in StoreThreads : StoreAlone /\ StoreConnect(th)
    \/ \E th \in StoreThreads : StoreAlone /\ StoreExecute(th)
    \/ \E th \in StoreThreads : StoreAlone /\ StoreCommit(th)

SpecLocks == Init /\ [][NextLocks]_vars

\* the tag handler, the mappings set beside it, the engine and the broadcast threads
SpecTag == InitLedOnly /\ [][NextTag]_vars

\* the manager built without a ring and the calls made on it
SpecOff == InitLedOnly /\ [][NextOff]_vars

(***************************************************************************)
(* The LED manager's properties.                                           *)
(***************************************************************************)
\* C1: in every reachable state at most one thread is inside a pixel-buffer write
\* section, from a frame's first setPixelColor through its show(), whichever of the
\* writers of LEDManager the callers interleave.
C1_OneWriterInSection == Cardinality(InSection) <= 1

\* C2: once stop_standby_comet has returned, the comet worker it stopped writes no
\* further frame to the pixel buffer.
C2_NoFrameAfterStopReturned == ~ghost_write

\* C8: every show() of remaining_progress draws a count that differs from the count
\* drawn last, so no two shows in a row carry the same count, also for two threads
\* racing with the same new count; the cached count is the count drawn last or being
\* drawn; under the lock a call draws exactly when its count differs from the cached
\* one and then shows once, and a call that returns without a show leaves its own
\* count as the cached one.
C8_NoEqualNeighbours ==
    \A i \in 1..(Len(rp_shown) - 1) : rp_shown[i] # rp_shown[i + 1]

C8_Drawing == {c \in Callers : c_pc[c] = "rp_show"}

C8_CacheIsLastDrawn ==
    /\ Cardinality(C8_Drawing) <= 1
    /\ \A c \in C8_Drawing :
         /\ last_remain_count = c_arg[c]
         /\ rp_shown # <<>> => rp_shown[Len(rp_shown)] # c_arg[c]
    /\ (C8_Drawing = {} /\ rp_shown # <<>>) => last_remain_count = rp_shown[Len(rp_shown)]
    /\ (C8_Drawing = {} /\ rp_shown = <<>>) => last_remain_count = -1

C8_LockedStep ==
    \A c \in Callers :
      /\ (c_pc[c] = "rp_acq" /\ c_pc'[c] # "rp_acq") =>
            IF c_arg[c] = last_remain_count
            THEN c_pc'[c] = "idle" /\ rp_shown' = rp_shown /\ pixels' = pixels
            ELSE c_pc'[c] = "rp_show" /\ last_remain_count' = c_arg[c]
      /\ (c_pc[c] = "rp_show" /\ c_pc'[c] # "rp_show") =>
            c_pc'[c] = "idle" /\ rp_shown' = Append(rp_shown, c_arg[c])
      /\ rp_shown' # rp_shown => \E d \in Callers : c_pc[d] = "rp_show" /\ c_pc'[d] = "idle"

C8_ShowOncePerChange ==
    /\ [](C8_NoEqualNeighbours /\ C8_CacheIsLastDrawn)
    /\ [][C8_LockedStep]_vars

\* two threads raced with the same new count: one has drawn and shown it, the other
\* is past the quick test and about to find the count unchanged under the lock
C8_Witness ==
    \E c \in Callers :
      /\ c_pc[c] = "rp_acq"
      /\ led_lock = Free
      /\ rp_shown # <<>>
      /\ rp_shown[Len(rp_shown)] = c_arg[c]
      /\ last_remain_count = c_arg[c]

\* C9: of two calls of start_standby_comet in a row with no stop between, the second
\* creates no worker thread and replaces no stop event.
C9_SecondStartCreatesNothing == ~second_created

\* C10: when a flash completes the pixel buffer equals the contents snapshotted at its
\* start, and no other writer's frame was drawn between the snapshot and the restore.
C10_FlashRestoresSnapshot ==
    \A f \in Flashes : f_result[f] # "clobbered" /\ ~f_foreign[f]

(***************************************************************************)
(* The reader manager's properties.                                        *)
(***************************************************************************)
C3_Script == <<Err, Err, Err, RawInt(42), NoTag>>

\* C3: on the reads [error, error, error, tag 42, no-tag] one run of the loop makes
\* exactly one reset-and-reinit cycle, after the third read and before the fourth, with
\* one pulse on the reset line while the manager owns it, and invokes the callback
\* exactly once, with 42.
C3_OneResetThenTag ==
    (script = C3_Script /\ n_started <= 1) =>
      /\ recoverAt \in {<<>>, <<3>>}
      /\ sim_pos < 3 => recoverAt = <<>>
      /\ sim_pos >= 4 => recoverAt = <<3>>
      /\ n_pulse <= 1
      /\ (sim_pos >= 4 /\ rst_owned) => n_pulse = 1
      /\ cbLog \in {<<>>, <<42>>}
      /\ cbLog = <<42>> => sim_pos >= 4
      /\ sim_pos = 5 => cbLog = <<42>>

C3_Witness ==
    /\ script = C3_Script
    /\ n_started = 1
    /\ sim_pos = 5
    /\ r_pc = "sleep_poll"
    /\ recoverAt = <<3>>
    /\ n_pulse = 1
    /\ cbLog = <<42>>

\* C4: when the callback ends, raising or not, the worker goes to the debounce sleep
\* with the error counter at 0 and not to the exception handler; the worker thread
\* ends only after it has seen the stop event set.
C4_CallbackStep ==
    (r_pc = "in_callback" /\ r_pc' # "in_callback") =>
        r_pc' = "debounce" /\ consecutive_errors' = 0 /\ elapsed' = 0

C4_CallbackRaiseKeepsLoop ==
    /\ [][C4_CallbackStep]_vars
    /\ []((r_pc = "dead" /\ n_started > 0) => stop_event)

\* a tag is delivered to the callback after an earlier callback raised
C4_Witness == delivered_after_raise /\ r_pc = "in_callback" /\ ~stop_event

\* C5: the handler of the loop body is entered only by a read that raises; it goes to
\* the reset-and-reinit cycle exactly when the counter after the increment is at least
\* 3 or more than 10 s have passed since the last success, and to the backoff sleep
\* without a reset otherwise; the cycle is entered from nowhere else.
C5_ExceptStep ==
    /\ (r_pc = "except" /\ r_pc' # "except") =>
          /\ consecutive_errors' = consecutive_errors + 1
          /\ IF consecutive_errors + 1 >= 3 \/ elapsed > 100
             THEN r_pc' = "recover"
             ELSE r_pc' = "backoff" /\ reader' = reader /\ n_pulse' = n_pulse
    /\ (r_pc' = "recover" /\ r_pc # "recover") => r_pc = "except"
    /\ (r_pc' = "except" /\ r_pc # "except") => r_pc = "reading" /\ has_noblock
    /\ (r_pc = "recover" /\ r_pc' # "recover") => reader' = "none" /\ r_pc' = "ctor1"

C5_ResetExactlyWhen == [][C5_ExceptStep]_vars

\* a reset for the time since the last success alone, the counter below 3
C5_Witness == r_pc = "recover" /\ consecutive_errors < 3 /\ elapsed > 100

\* C6: once the stop event is set the worker enters at most one further read and at
\* most one further callback, and it exits, the calls it waits in returning.
C6_AfterStopBounded == reads_after_stop <= 1 /\ cb_after_stop <= 1

C6_StopEndsLoop ==
    /\ []C6_AfterStopBounded
    /\ ((stop_event /\ ThreadAlive) ~> ~ThreadAlive)

\* the worker has exited after one read and one callback that followed the stop
C6_Witness ==
    stop_event /\ r_pc = "dead" /\ reads_after_stop = 1 /\ cb_after_stop = 1

\* C7: stop() returns whether or not the worker leaves its hardware read, and the
\* reset line is released when it returns.
C7_StopStepReleases == (ctl_pc # "idle" /\ ctl_pc' = "idle") => ~rst_owned'

C7_StopReturns ==
    /\ [][C7_StopStepReleases]_vars
    /\ [](stop_returned => ~rst_owned)
    /\ (ctl_pc # "idle" ~> ctl_pc = "idle")

\* stop() has returned while the worker is still in the read it was in before the stop
C7_Witness ==
    /\ stop_returned
    /\ ctl_pc = "idle"
    /\ stop_event
    /\ r_pc = "reading"
    /\ reads_after_stop = 0
    /\ ~rst_owned

\* C11: once a shutdown() that ran with no other call beside it has returned, and
\* while no further call is made, neither a comet worker nor a flash worker writes a
\* frame to the ring.
C11_NoWriteAfterShutdown == sd_state # "late"

(***************************************************************************)
(* The progress tracker's properties.                                      *)
(***************************************************************************)
\* the state-change branch of this tick has run for a change from stopped to playing,
\* the engine having a track length when it ran
C12_Resumed ==
    t_pc = "track" /\ t_from = "stopped" /\ t_state = "playing" /\ t_seen.len > 0

\* C12 as stated: when the tracker finds the state changed from stopped to playing and
\* the track length is known, it has called remaining_progress in that tick's
\* state-change branch, with the ratio of the position and length the engine had then.
C12_UpdateOnResume ==
    C12_Resumed => t_calls = <<RemainRatio(t_seen.pos, t_seen.len)>>

\* C12, amended: the same when moreover the toggle "remaining" is on.
C12_UpdateOnResumeWhenEnabled ==
    (C12_Resumed /\ t_seen.on) => t_calls = <<RemainRatio(t_seen.pos, t_seen.len)>>

\* the tracker has called remaining_progress for a position other than the one its
\* locals held from the tick before
C12_Witness ==
    /\ C12_Resumed
    /\ t_seen.on
    /\ t_seen.pos = 1
    /\ t_calls = <<RemainRatio(1, t_seen.len)>>
    /\ last_remain_count = RemainLeds(RemainRatio(1, t_seen.len))

\* a comet worker is alive and its stop event is not set
CometRunning == \E w \in Comets : w_pc[w] # "dead" /\ ~ev_set[w]

\* C13: at the end of a tick that found the state changed, the standby comet runs if
\* the new state is stopped and does not if it is playing or paused; a paused sweep runs
\* if the new state is paused, the toggle "remaining" on and the track length known,
\* and none runs if the new state is not paused.
C13_AnimationFollowsState ==
    (t_pc = "sleep" /\ t_from # t_state) =>
        /\ t_state = "stopped" => CometRunning
        /\ t_state \in {"playing", "paused"} => ~CometRunning
        /\ (t_state = "paused" /\ t_seen.on /\ t_seen.len > 0) => sweep_running
        /\ t_state # "paused" => ~sweep_running

(***************************************************************************)
(* The mappings store's properties.                                        *)
(***************************************************************************)
\* the rows the applied writes e leave, one per mapped tag
RowsExpected(e) ==
    {Row(t, e[t].uri, e[t].description) : t \in {x \in Tags : e[x].found}}

C15_DeleteReportsRow ==
    /\ \A th \in StoreThreads :
        LET r == s_res[th] IN
        /\ (r.op = "delete" /\ ~r.fault) =>
              /\ r.deleted = r.exp[r.tag].found
              /\ (r.prev = "delete" => ~r.deleted)
        /\ (r.op = "get" /\ ~r.fault /\ r.prev = "delete") =>
              /\ ~r.mapping.found
              /\ r.fe_uri = IF r.tag \in DOMAIN ConfigMappings
                            THEN ConfigMappings[r.tag] ELSE NoUri
    /\ \A t \in Tags : last_mut[t] = "delete" => RowsOf(db_rows, t) = {}

\* one thread's delete of a tag returned true, the other's delete of the same tag,
\* applied right after it, returned false
C15_Witness ==
    \E th, ot \in StoreThreads :
        /\ s_res[th].op = "delete" /\ ~s_res[th].fault /\ s_res[th].deleted
        /\ s_res[ot].op = "delete" /\ ~s_res[ot].fault /\ ~s_res[ot].deleted
        /\ s_res[ot].tag = s_res[th].tag
        /\ s_res[ot].prev = "delete"

C17_SetStep(th) == s_pc[th] = "commit" /\ s_pc'[th] = "idle" /\ s_op[th].op = "set"

C17_SetReplaces ==
    \A th \in StoreThreads :
        C17_SetStep(th) =>
            LET o == s_op[th] IN
            /\ \A t \in Tags \ {o.tag} : RowsOf(db_rows', t) = RowsOf(db_rows, t)
            /\ (Row(o.tag, o.uri, o.description) \in db_rows => db_rows' = db_rows)
            /\ (~s_res'[th].fault =>
                   RowsOf(db_rows', o.tag) = {Row(o.tag, o.uri, o.description)})

\* C17: the table never holds two rows of one tag; an applied set leaves exactly its
\* own row for its tag, changes nothing when that row is there already, and leaves
\* the rows of every other tag as they were.
C17_OneMappingPerTag ==
    /\ [](\A t \in Tags : Cardinality(RowsOf(db_rows, t)) <= 1)
    /\ [][C17_SetReplaces]_vars

\* a set has replaced the mapping of a tag that had another one, beside the row of
\* the other tag
C17_Witness ==
    \E th \in StoreThreads :
        LET r == s_res[th] IN
        /\ r.op = "set" /\ ~r.fault /\ r.prev = "set"
        /\ r.exp[r.tag].uri # r.uri
        /\ r.exp[r.tag].description # r.description
        /\ db_rows = {Row(r.tag, r.uri, r.description)}
                        \cup RowsExpected([r.exp EXCEPT ![r.tag] = NoMapping])
        /\ Cardinality(db_rows) = 2

\* C18: whatever way the threads' calls overlap, the table is what the applied sets
\* and deletes leave when taken one after another in the order they were committed,
\* and every get, delete and list_all returns what that order gives: a whole mapping
\* of one set, never parts of two.
C18_SequentialOrder ==
    /\ db_rows = RowsExpected(expect)
    /\ \A th \in StoreThreads :
        LET r == s_res[th] IN
        ~r.fault =>
            /\ r.op = "get" => r.mapping = r.exp[r.tag]
            /\ r.op = "delete" => r.deleted = r.exp[r.tag].found
            /\ r.op = "list" =>
                  r.listing = [t \in {x \in Tags : r.exp[x].found} |-> r.exp[t]]

\* two sets of one tag with different actions and descriptions overlapped, both were
\* applied, and the table holds the row of exactly one of them
C18_Witness ==
    \E th, ot \in StoreThreads :
        /\ th # ot
        /\ s_res[th].op = "set" /\ ~s_res[th].fault /\ s_res[th].overlap
        /\ s_res[ot].op = "set" /\ ~s_res[ot].fault
        /\ s_res[ot].tag = s_res[th].tag
        /\ s_res[ot].uri # s_res[th].uri
        /\ s_res[ot].description # s_res[th].description
        /\ s_res[ot].prev = "set"
        /\ db_rows = {Row(s_res[ot].tag, s_res[ot].uri, s_res[ot].description)}

\* the step in which th's operation returns after a fault
C19_FaultStep(th) == s_pc[th] # "idle" /\ s_pc'[th] = "idle" /\ s_res'[th].fault

C19_FaultLeavesTable ==
    \A th \in StoreThreads :
        C19_FaultStep(th) => db_rows' = db_rows /\ db_lock' = 0

C19_FaultAnswers ==
    /\ \A th \in StoreThreads :
        LET r == s_res[th] IN
        r.fault => ~r.mapping.found /\ ~r.deleted /\ DOMAIN r.listing = {}
    /\ db_lock # 0 => s_pc[db_lock] \in {"connect", "execute", "commit"}

C20_FailedSetReported ==
    \A th \in StoreThreads :
        LET r == s_res[th] IN
        (r.op = "set" /\ r.fault) =>
            /\ r.ret # SetReturn(TRUE)
            /\ r.http_ok # PostOk(SetReturn(TRUE))

(***************************************************************************)
(* The tag handler's properties.                                           *)
(***************************************************************************)
\* the handler has returned from a detection
Handled == n_tags > 0 /\ h_pc = "idle"

\* a mapping that is neither a command nor an album nor a playlist
PlainTrack(u) ==
    Mapped(u) /\ u \notin {"TOGGLE_PLAY", "STOP"} /\ ~IsAlbum(u) /\ ~IsPlaylist(u)

\* where the log holds a call
Calls(o, u) == {i \in DOMAIN cmd_log : cmd_log[i] = Cmd(o, u)}

\* the calls of one method, whatever their argument
CallsOf(o) == {i \in DOMAIN cmd_log : cmd_log[i].op = o}

\* C21: when the handler has returned from a detection of a tag mapped to a plain
\* track URI, the calls it made on the engine hold exactly one clear, exactly one
\* add of that URI and exactly one play, in this order.
C21_ClearAddPlay ==
    (Handled /\ PlainTrack(h_uri)) =>
        /\ Cardinality(CallsOf("clear")) = 1
        /\ Cardinality(Calls("add", h_uri)) = 1
        /\ Cardinality(CallsOf("play")) = 1
        /\ \A i \in CallsOf("clear") : \A j \in Calls("add", h_uri) :
           \A k \in CallsOf("play") : i < j /\ j < k

\* a tag mapped to a track in the store was handled with a detected sound set: the
\* log is clear, add of the sound, add of the track, play
C21_Witness ==
    /\ Handled /\ h_uri = "a" /\ sounds_detected = "snd"
    /\ cmd_log = <<Cmd("clear", ""), Cmd("add", "snd"), Cmd("add", "a"), Cmd("play", "")>>

\* C22: when the handler has returned from a detection of a tag mapped to
\* TOGGLE_PLAY, the one call it made is pause if the state it read was playing,
\* and play if it was paused or stopped.
C22_ToggleIssues ==
    (Handled /\ h_uri = "TOGGLE_PLAY") =>
        cmd_log = <<Cmd(ExecuteMappingToggle(h_state), "")>>

\* C23: when the handler has returned from a detection of a tag mapped to STOP, it
\* has called stop and has called neither add nor play, with a detected sound set
\* or none.
C23_StopOnly ==
    (Handled /\ h_uri = "STOP") =>
        /\ CallsOf("stop") # {}
        /\ CallsOf("add") = {}
        /\ CallsOf("play") = {}

\* STOP was handled with a detected sound set
C23_Witness ==
    /\ Handled /\ h_uri = "STOP" /\ sounds_detected = "snd"
    /\ cmd_log = <<Cmd("clear", ""), Cmd("stop", "")>>

\* C24: from the detection of a tag with no mapping in the store or the
\* configuration, and with no detected sound set, the handler makes no call on the
\* engine, goes on to its return, and when it has returned the tag's event has been
\* handed to a broadcast thread.
C24_UnmappedDoesNothing ==
    (n_tags > 0 /\ ~Mapped(h_uri) /\ sounds_detected = "") =>
        /\ cmd_log = <<>>
        /\ h_pc \in {"sound", "broadcast", "idle"}
        /\ h_pc = "idle" =>
              \E e \in bc_pending \cup {events[i] : i \in DOMAIN events} :
                  /\ e = TagEvent(n_tags, h_tag, h_uri)
                  /\ e.action = "none" /\ e.uri = ""

\* an unmapped tag was handled with no sound set, and its event was published
C24_Witness ==
    /\ Handled /\ ~Mapped(h_uri) /\ sounds_detected = "" /\ cmd_log = <<>>
    /\ \E i \in DOMAIN events : events[i] = TagEvent(n_tags, h_tag, NoUri)

(***************************************************************************)
(* The reader manager's properties: its workers, its error counter and its *)
(* acquisition of the reader handle.                                       *)
(***************************************************************************)
\* C25: whatever start() and stop() calls the controlling thread makes, a step
\* creates a read-loop worker only when no worker is alive: a start() made while
\* the worker is alive creates none, so at most one worker is alive at any time.
C25_OneWorker ==
    [][n_started' # n_started =>
          /\ r_pc = "dead" /\ r_pc' = "while"
          /\ n_started' = n_started + 1]_vars

\* start() was called while the first worker was alive and created nothing; after a
\* stop() a second worker was started and is alive
C25_Witness == start_refused /\ n_started = 2 /\ r_pc # "dead" /\ stop_returned

\* the simulated reader of C28: three read errors, each between two reads that succeed
C28_Script == <<NoTag, Err, NoTag, Err, NoTag, Err, NoTag>>

\* C28: no reset-and-reinit cycle is triggered by a read error whose preceding and
\* following reads both succeeded (with a tag or with none); only an error inside a
\* run of failing reads triggers one.
C28_SingleErrorNoReset ==
    \A i \in DOMAIN recoverAt :
        LET k == recoverAt[i] IN
        ~ /\ 1 < k /\ k < Len(script)
          /\ script[k] = Err
          /\ script[k - 1] # Err
          /\ script[k + 1] # Err

C29_ResetStep ==
    /\ (r_pc = "recover_done" /\ r_pc' # "recover_done") => consecutive_errors' = 0
    /\ (r_pc = "in_callback" /\ r_pc' # "in_callback") => consecutive_errors' = 0

\* C29: the consecutive-error counter never exceeds 3; it is 0 when the worker leaves
\* a recovery cycle, with the handle re-acquired or not, and 0 when the callback of
\* a delivered tag has returned or raised.
C29_CounterBounded ==
    /\ [](consecutive_errors <= ErrorThreshold)
    /\ [][C29_ResetStep]_vars

\* a recovery cycle whose two constructor calls failed has ended: the handle is
\* absent, the counter is 0 and the worker is at its backoff sleep
C29_Witness ==
    r_pc = "backoff" /\ r_ret = "recover" /\ reader = "none" /\ consecutive_errors = 0

C30_AcquireStep ==
    /\ (r_pc # "ctor1" /\ r_pc' = "ctor1") => r_pc \in {"while", "recover"}
    /\ (r_pc = "ctor1" /\ r_pc' # "ctor1") =>
          \/ r_pc' = "ctor2" /\ reader' = reader /\ PulseDriven
          \/ r_pc' = AfterInit(r_ret, "handle") /\ reader' = "handle"
    /\ (r_pc = "ctor2" /\ r_pc' # "ctor2") =>
          /\ r_pc' = AfterInit(r_ret, reader')
          /\ reader' = "none" => r_pc' \in {"no_reader", "recover_done"}
    /\ (r_pc = "no_reader" /\ r_pc' # "no_reader") => r_pc' = "while" /\ reader' = "none"

\* C30: an acquisition attempt makes one constructor call, and a second one only
\* when the first failed, with the reset pulse driven between the two; when both fail
\* the handle stays absent and the worker sleeps and goes back to the head of its
\* loop; a read is entered or in progress only while the handle is there.
C30_Acquisition ==
    /\ [][C30_AcquireStep]_vars
    /\ [](r_pc \in {"read", "reading"} => reader = "handle")

(***************************************************************************)
(* The standby comet's workers and the flag _standby_running.              *)
(***************************************************************************)
\* C27: when the calls are made one after the other, then between two calls at most
\* one comet worker is alive with its stop event not set, and _standby_running is
\* true exactly when such a worker exists.
C27_FlagMatchesWorker ==
    (\A c \in Callers : c_pc[c] = "idle") =>
        /\ Cardinality({w \in Comets : w_pc[w] # "dead" /\ ~ev_set[w]}) <= 1
        /\ standby_running <=> CometRunning

(***************************************************************************)
(* The manager built without a ring.                                       *)
(***************************************************************************)
\* C26: on an LEDManager whose ring was disabled or absent at construction no call
\* of show_ready, flash_confirm, a scan, remaining_progress, start_standby_comet,
\* stop_standby_comet or shutdown writes to a strip, starts a worker or raises.
C26_DisabledIsNoOp ==
    (off_mgr.built /\ ~(off_mgr.args.led_enabled /\ off_mgr.args.lib /\ off_mgr.args.begin_ok)) =>
        \A i \in DOMAIN off_log :
            ~off_log[i].wrote /\ ~off_log[i].worker /\ ~off_log[i].raised

\* a manager built with led_enabled but a PixelStrip that failed to initialise has
\* been called: show_ready, start_standby_comet, shutdown
C26_Witness ==
    /\ off_mgr.built /\ off_mgr.args.led_enabled /\ off_mgr.args.lib
    /\ Len(off_log) = 3
    /\ off_log[1].op = "show_ready" /\ off_log[2].op = "start_standby_comet"
    /\ off_log[3].op = "shutdown"
    /\ ~off_mgr.running

(***************************************************************************)
(* The read loop's deliveries to the callback.                             *)
(***************************************************************************)
\* the tag ids the first n simulated reads parse to, in their order
C31_ParsedOf(n) ==
    LET served == SelectSeq(SubSeq(script, 1, n), LAMBDA raw : ParseTag(raw) # -1)
    IN  [i \in 1..Len(served) |-> ParseTag(served[i])]

\* the callback has been entered once for each parseable read served, in their
\* order and with the parsed id; the last one may still be on its way to the callback
C31_OncePerRead ==
    Logging =>
        LET ids == C31_ParsedOf(sim_pos)
            due == Len(ids) - (IF r_pc = "callback" THEN 1 ELSE 0)
        IN  cbLog = SubSeq(ids, 1, Min(due, MaxLog))

\* a parseable read takes the worker to the callback with the parsed id, from there
\* through the callback to the debounce sleep of 1.0 s and only then to the head of
\* the loop; a read is entered from the head of the loop only, the handle acquired
\* there when it was absent
C31_DeliverStep ==
    /\ (r_pc = "reading" /\ r_pc' # "reading" /\ sim_pos < Len(script)
            /\ ParseTag(script[sim_pos + 1]) # -1)
         => (r_pc' = "callback" /\ tid' = ParseTag(script[sim_pos + 1]))
    /\ (r_pc' = "callback" /\ r_pc # "callback")
         => (r_pc = "reading" /\ tid' \in {ParseTag(raw) : raw \in ReadOutcomes} \ {-1})
    /\ (r_pc = "callback" /\ r_pc' # "callback") => (r_pc' = "in_callback" /\ tid' = tid)
    /\ (r_pc = "in_callback" /\ r_pc' # "in_callback") => r_pc' = "debounce"
    /\ (r_pc = "debounce" /\ r_pc' # "debounce") => (r_pc' = "while" /\ elapsed' = DebounceDs)
    /\ (r_pc' = "reading" /\ r_pc # "reading") => r_pc = "read"
    /\ (r_pc' = "read" /\ r_pc # "read") => r_pc \in {"while", "ctor1", "ctor2"}

\* C31: every read that yields a parseable tag id is followed by exactly one entry
\* of the callback, with that id; no read is entered before the debounce sleep after
\* it is over; a tag read again by the next read is handed to the callback again.
C31_EachTagDeliveredOnce == []C31_OncePerRead /\ [][C31_DeliverStep]_vars

\* the same tag read twice in a row has been delivered twice, the second debounce over
C31_Witness ==
    /\ script = <<RawInt(42), RawInt(42), NoTag>>
    /\ sim_pos = 2
    /\ cbLog = <<42, 42>>
    /\ r_pc = "read"

\* a simulated read is returning a value that no representation parses
C32_UnparseableRead ==
    /\ r_pc = "reading" /\ r_pc' # "reading"
    /\ sim_pos < Len(script)
    /\ script[sim_pos + 1] \notin {Err, NoTag}
    /\ ParseTag(script[sim_pos + 1]) = -1

C32_Step ==
    C32_UnparseableRead =>
        /\ r_pc' = "sleep_poll"
        /\ UNCHANGED <<consecutive_errors, elapsed, cbLog>>

\* C32: a read returning a value that no representation parses to an integer takes
\* the worker where a no-tag read takes it, to the sleep of the poll interval, with
\* the callback not entered and the error counter and the time since the last
\* success as they were.
C32_UnparseableIsNoRead == [][C32_Step]_vars

(***************************************************************************)
(* The read loop on a handle that has only the blocking read().            *)
(***************************************************************************)
\* C38: while the handle offers no read_id_no_block, the worker is never in the
\* handler of the loop body nor in a reset-and-reinit cycle and its error counter
\* stays 0, however many of the blocking reads raise; a read that raised is followed
\* by the sleep of the poll interval, as a no-tag read is.
C38_BlockingReadErrorsIgnored ==
    ~has_noblock =>
        /\ consecutive_errors = 0
        /\ r_pc \notin {"except", "recover", "recover_done", "backoff"}
        /\ r_ret = "loop"
        /\ recoverAt = <<>>
        /\ (Logging /\ r_pc = "sleep_poll" /\ sim_pos > 0 /\ sim_pos < Len(script))
             => script[sim_pos] \in {Err, NoTag}

\* four blocking reads in a row have raised, the tag read after them was delivered,
\* and no reset pulse was driven
C38_Witness ==
    /\ ~has_noblock
    /\ script = <<Err, Err, Err, Err, RawInt(42), NoTag>>
    /\ sim_pos = 5
    /\ cbLog = <<42>>
    /\ n_pulse = 0
    /\ r_pc = "debounce"

(***************************************************************************)
(* The worker once stop() has returned.                                    *)
(***************************************************************************)
\* the worker enters the callback
C39_CallbackEntered == r_pc = "callback" /\ r_pc' = "in_callback"

C39_SilentStep == StopHasReturned => (~C39_CallbackEntered /\ n_pulse' = n_pulse)

\* C39 as stated: once stop() has returned and until start() is called again, the
\* worker does not enter the callback and drives no reset pulse.
C39_SilentAfterStop == [][C39_SilentStep]_vars

C39_LateStep ==
    StopHasReturned =>
        /\ n_pulse' = n_pulse
        /\ ~rst_owned /\ ~rst_owned'
        /\ C39_CallbackEntered => (cb_after_stop = 0 /\ reads_after_stop <= 1)
        /\ (r_pc' = "reading" /\ r_pc # "reading") => reads_after_stop = 0
        /\ r_pc = "dead" => (r_pc' = "dead" \/ ~stop_event')

\* C39, amended: once stop() has returned and until start() is called again, a worker
\* that has exited stays so; one that the join did not wait for enters the callback
\* at most once more, for the read it was in or the one read it may still begin, and
\* drives no pulse on the reset line, which stays released.
C39_AtMostOneLateCallback == [][C39_LateStep]_vars

\* a simulated reader's worker, left behind by the join, has handed a tag to the
\* callback after stop() returned and is still inside the callback
C39_Witness ==
    /\ StopHasReturned
    /\ late = {"callback"}
    /\ ~rst_owned
    /\ r_pc = "in_callback"

(***************************************************************************)
(* The standby comet's head on the ring the manager was built with.        *)
(***************************************************************************)
C37_CometStep ==
    \A w \in Comets :
        /\ (w_pc[w] = "acq" /\ w_pc'[w] = "show") =>
              /\ w_idx[w] \in Pix
              /\ CometIndices(w_idx[w]) \subseteq Pix
        /\ (w_pc[w] = "show" /\ w_pc'[w] = "wait") =>
              w_idx'[w] = (w_idx[w] + 1) % LedCount

\* C37: every frame a comet worker draws has its head on a pixel of the ring and
\* writes to no index outside 0..led_count-1, and after the frame the head is one
\* pixel further, back at 0 after the pixel led_count-1.
C37_HeadWrapsAtLedCount == [][C37_CometStep]_vars

(***************************************************************************)
(* Hardware writes that raise.                                             *)
(***************************************************************************)
\* the draw lock is held only by a thread inside a write section
C36_LockHolderInside ==
    /\ \A c \in Callers :
          led_lock = Caller(c) => c_pc[c] \in DOMAIN WritePositions \ {"rp_acq", "sp_show"}
    /\ \A w \in Comets : led_lock = Comet(w) => w_pc[w] = "show"
    /\ \A f \in Flashes : led_lock = Flash(f) => Flashing(f)

\* a write that raises ends no comet worker
C36_FaultStep ==
    n_faults' # n_faults => \A w \in Comets : w_pc[w] # "dead" => w_pc'[w] # "dead"

\* C36: a hardware write that raises in a frame of the standby comet leaves the
\* worker running; one that raises inside show_ready, flash_confirm, a scan,
\* remaining_progress or shutdown reaches no caller, and the draw lock is never left
\* held by a thread that is outside its write section.
C36_WriteErrorsContained ==
    /\ [](propagated = {} /\ C36_LockHolderInside)
    /\ [][C36_FaultStep]_vars


(***************************************************************************)
(* The progress tracker's ring.                                            *)
(***************************************************************************)
\* the ring in which the first k pixels are white and the others off
C33_Shows(buf, k) == buf = [i \in Pix |-> IF i < k THEN White ELSE Off]

\* the end of a tick in state playing with the toggle on, the length known, the led
\* manager in place and no comet worker or flash alive
C33_PlayingTickEnds ==
    /\ t_pc = "track" /\ t_pc' = "sleep"
    /\ fe_led = "manager" /\ t_state = "playing" /\ remaining_on /\ eng_len > 0
    /\ \A w \in Comets : w_pc[w] = "dead"
    /\ \A f \in Flashes : f_pc[f] = "dead"

\* C33: a tick in state playing with a known track length and no animation running
\* leaves the ring with exactly the first round(led_count * ratio) pixels white and the
\* others off, and the ring shows the cached count of lit pixels whenever one is cached.
C33_RingShowsRemaining ==
    [][C33_PlayingTickEnds =>
          /\ C33_Shows(pixels', RemainLeds(RemainRatio(eng_pos, eng_len)))
          /\ last_remain_count' >= 0 => C33_Shows(pixels', last_remain_count')]_vars


\* the end of a tick that observed state stopped
C34_StoppedTickEnds == t_pc = "track" /\ t_pc' = "sleep" /\ t_state = "stopped"

\* remaining_progress is called in the branch of a change from stopped to playing
C34_CallOnResume ==
    /\ t_pc = "change" /\ t_from = "stopped" /\ t_state = "playing"
    /\ Len(t_calls') > Len(t_calls)

\* C34: a tick that observes state stopped ends with no remaining count cached, and the
\* remaining_progress call made on the next change to playing finds no cached count and
\* draws its frame.
C34_StopDropsCache ==
    [][/\ C34_StoppedTickEnds => last_remain_count' = -1
       /\ C34_CallOnResume =>
             /\ last_remain_count = -1
             /\ rp_shown' = Append(rp_shown, RemainLeds(RemainRatio(eng_pos, eng_len)))
             /\ C33_Shows(pixels', RemainLeds(RemainRatio(eng_pos, eng_len)))]_vars

\* a tick in state stopped has dropped the count that a tick in state playing had cached
C34_Witness ==
    /\ t_pc = "sleep" /\ t_state = "stopped" /\ t_from = "playing"
    /\ rp_shown # <<>>
    /\ last_remain_count = -1


\* a step of a tick in state playing or paused, taken while neither the engine nor the
\* file probe gives a length and the ring holds the remaining frame drawn last
C35_NoLengthStep ==
    /\ fe_led = "manager"
    /\ eng_len = 0
    /\ \/ /\ t_pc = "observe" /\ t_pc' \in {"change", "track"}
          /\ eng_state \in {"playing", "paused"}
       \/ t_pc \in {"change", "track"} /\ t_pc' # t_pc /\ t_state \in {"playing", "paused"}
    /\ last_remain_count > 0
    /\ C33_Shows(pixels, last_remain_count)

\* C35: a tick in state playing or paused with no track length to be had calls
\* remaining_progress not at all, leaves the tracker in its loop and leaves the ring as
\* the last remaining frame drawn.
C35_FrozenWithoutLength ==
    [][C35_NoLengthStep =>
          /\ Len(t_calls') <= Len(t_calls)
          /\ rp_shown' = rp_shown
          /\ t_pc' \in {"change", "track", "sleep"}
          /\ pixels' = pixels]_vars


(***************************************************************************)
(* The three locks.                                                        *)
(***************************************************************************)
\* each lock is held only by a thread inside the `with` block that took it
C40_HeldInsideBlock ==
    /\ r_lock <=> r_pc \in {"ctor1", "ctor2"}
    /\ C36_LockHolderInside
    /\ db_lock # 0 => s_pc[db_lock] \in {"connect", "execute", "commit"}

\* the position of the thread that holds the draw lock
C40_DrawHolderAt ==
    CASE led_lock[1] = "caller" -> <<c_pc[led_lock[2]], c_i[led_lock[2]]>>
      [] led_lock[1] = "comet" -> <<w_pc[led_lock[2]], w_idx[led_lock[2]]>>
      [] led_lock[1] = "flash" -> <<f_pc[led_lock[2]]>>
      [] OTHER -> <<>>

\* the thread that holds a lock has a step to take: it waits for nothing
C40_HolderCanStep ==
    /\ r_lock => ENABLED (NextLocks /\ r_pc' # r_pc)
    /\ led_lock # Free => ENABLED (NextLocks /\ C40_DrawHolderAt' # C40_DrawHolderAt)
    /\ db_lock # 0 => ENABLED (NextLocks /\ s_pc'[db_lock] # s_pc[db_lock])

\* a lock is taken only when it is free: no thread takes a lock it holds, or one
\* another thread holds
C40_TakenWhenFree ==
    /\ (r_pc' = "ctor1" /\ r_pc \notin {"ctor1", "ctor2"}) => ~r_lock
    /\ (led_lock' # led_lock /\ led_lock' # Free) => led_lock = Free
    /\ (db_lock' # db_lock /\ db_lock' # 0) => db_lock = 0

\* C40: the reader lock, the draw lock and the store mutex are each held only inside
\* the block that took them, whichever way the block is left, an exception included;
\* a thread holding one always has a step to take, so none waits for a lock of its own
\* or for a thread that waits on it, and no state with a lock held is a deadlock.
C40_NoDeadlock ==
    /\ [](C40_HeldInsideBlock /\ C40_HolderCanStep)
    /\ [][C40_TakenWhenFree]_vars

\* a hardware write has raised and its thread has let go of the draw lock, which the
\* flash worker now holds through its sleep while the comet worker waits for it
C40_Witness ==
    /\ n_faults > 0
    /\ \E f \in Flashes : led_lock = Flash(f) /\ f_pc[f] = "hold"
    /\ \E w \in Comets : w_pc[w] = "acq"

====
